---- MODULE Spec2Model ----
(***************************************************************************)
(* A chess-playing agent: an LLM reasoning step that alternates with a     *)
(* tools step (agent/graph.py), the position it tracks as a FEN string,    *)
(* and the helpers of agent/chess_api.py.  Strings of the program (FEN     *)
(* positions, UCI moves) are TLA+ strings; the rules library the program   *)
(* calls (chess.Board, chess.Move) is modelled by what the program uses of *)
(* it: parsing a FEN, parsing a UCI move, the legal moves, push, fen().    *)
(***************************************************************************)
EXTENDS Integers, Sequences, FiniteSets, TLC

VARIABLES
    messages,           \* state["messages"]: the history (the system message and its tail)
    current_position,   \* state["current_position"]: a FEN string
    pc,                 \* where the conversation stands: input, agent, tools, done, crashed
    response,           \* agent_node's local `response`: what the provider last returned
    assistant_message,  \* main's local `assistant_message`: the reply last printed
    call,               \* a direct call of a helper function: its name and arguments
    ret,                \* what that call returned
    request             \* the JSON payload that call posted to the analysis service

vars == <<messages, current_position, pc, response, assistant_message, call, ret, request>>

(***************************************************************************)
(* Bounds of the model.                                                    *)
(***************************************************************************)
\* The most tool calls one assistant message carries.
MaxBatch == 2
\* The most moves a replayed game has.
MaxMoves == 3

(***************************************************************************)
(* Strings.                                                                *)
(***************************************************************************)
\* A function written out as a table, and a sequence written out as a tuple:
\* the same values, computed once instead of at every application.
Table(f) == f @@ <<>>
Tuple(s) == <<>> \o s

CharAt(s, i) == SubSeq(s, i, i)

\* str.index: the 1-based place of character c in s, 0 when absent.
RECURSIVE IndexFrom(_, _, _)
IndexFrom(c, s, i) ==
    IF i > Len(s) THEN 0 ELSE IF CharAt(s, i) = c THEN i ELSE IndexFrom(c, s, i + 1)

IndexOf(c, s) == IndexFrom(c, s, 1)

IsDigit(c) == IndexOf(c, "0123456789") > 0

DigitStr(d) == CharAt("0123456789", d + 1)

\* str(n) of a natural number.
RECURSIVE IntToStr(_)
IntToStr(n) == IF n < 10 THEN DigitStr(n) ELSE IntToStr(n \div 10) \o DigitStr(n % 10)

\* int(s) of a string: -1 stands for the ValueError of a string that is no number.
RECURSIVE StrToIntFrom(_, _, _)
StrToIntFrom(s, i, acc) ==
    IF i > Len(s) THEN acc
    ELSE IF ~IsDigit(CharAt(s, i)) THEN -1
    ELSE StrToIntFrom(s, i + 1, acc * 10 + (IndexOf(CharAt(s, i), "0123456789") - 1))

StrToInt(s) == IF Len(s) = 0 THEN -1 ELSE StrToIntFrom(s, 1, 0)

\* str.split(sep) on one character: the fields between the separators.
RECURSIVE SplitFrom(_, _, _, _)
SplitFrom(s, sep, i, cur) ==
    IF i > Len(s) THEN <<cur>>
    ELSE IF CharAt(s, i) = sep THEN <<cur>> \o SplitFrom(s, sep, i + 1, "")
    ELSE SplitFrom(s, sep, i + 1, cur \o CharAt(s, i))

Split(s, sep) == SplitFrom(s, sep, 1, "")

\* str.split(): the fields between runs of spaces, none of them empty.
SplitWs(s) == SelectSeq(Split(s, " "), LAMBDA f : f # "")

\* ", ".join(xs)
RECURSIVE Join(_, _)
Join(xs, sep) ==
    IF Len(xs) = 0 THEN ""
    ELSE IF Len(xs) = 1 THEN xs[1]
    ELSE xs[1] \o sep \o Join(Tail(xs), sep)

(***************************************************************************)
(* The board of the rules library (chess.Board).  Squares are 0..63, a1 = 0,*)
(* h1 = 7, a8 = 56; a board maps each square to its piece letter (upper    *)
(* case white, lower case black) or "." when it is empty.                  *)
(***************************************************************************)
Squares == 0..63
File(sq) == sq % 8
Rank(sq) == sq \div 8
Sq(f, r) == r * 8 + f
OnBoard(f, r) == f >= 0 /\ f <= 7 /\ r >= 0 /\ r <= 7

WhitePieces == {"P", "N", "B", "R", "Q", "K"}
BlackPieces == {"p", "n", "b", "r", "q", "k"}
IsPieceChar(c) == c \in WhitePieces \/ c \in BlackPieces
ColorTable == Table([c \in WhitePieces \cup BlackPieces \cup {"."} |->
                 IF c \in WhitePieces THEN "w" ELSE IF c \in BlackPieces THEN "b" ELSE "-"])
ColorOf(c) == ColorTable[c]
Other(color) == IF color = "w" THEN "b" ELSE "w"
UpperTable == Table([c \in BlackPieces |-> CharAt("PNBRQK", IndexOf(c, "pnbrqk"))])
KindTable == Table([c \in WhitePieces \cup BlackPieces \cup {"."} |->
                IF c \in WhitePieces THEN CharAt("pnbrqk", IndexOf(c, "PNBRQK")) ELSE c])
\* The piece letter of a kind ("p", "n", ...) for a side.
PieceOf(kind, color) == IF color = "b" THEN kind ELSE UpperTable[kind]
KindOf(c) == KindTable[c]

\* chess.SQUARE_NAMES[sq]
SquareNames == Table([sq \in Squares |->
                  CharAt("abcdefgh", File(sq) + 1) \o CharAt("12345678", Rank(sq) + 1)])
SquareName(sq) == SquareNames[sq]

\* chess.SQUARE_NAMES.index(name): -1 stands for its ValueError.
SquareIndex(name) ==
    IF Len(name) = 2 /\ IndexOf(CharAt(name, 1), "abcdefgh") > 0
                     /\ IndexOf(CharAt(name, 2), "12345678") > 0
    THEN Sq(IndexOf(CharAt(name, 1), "abcdefgh") - 1, IndexOf(CharAt(name, 2), "12345678") - 1)
    ELSE -1

RECURSIVE Dots(_)
Dots(n) == IF n = 0 THEN "" ELSE "." \o Dots(n - 1)

\* One rank of a piece placement spelled out square by square; a "!" in the
\* result marks a character the library refuses (or two digits in a row).
RECURSIVE ExpandRank(_, _, _)
ExpandRank(row, i, prevDigit) ==
    IF i > Len(row) THEN ""
    ELSE LET c == CharAt(row, i) IN
         IF IndexOf(c, "12345678") > 0
         THEN IF prevDigit THEN "!"
              ELSE Dots(IndexOf(c, "12345678")) \o ExpandRank(row, i + 1, TRUE)
         ELSE IF IsPieceChar(c) THEN c \o ExpandRank(row, i + 1, FALSE)
         ELSE "!"

RankOk(cells) == Len(cells) = 8 /\ IndexOf("!", cells) = 0

\* The castling field: "-" or at most two of KQ followed by at most two of kq.
CastlingFieldOk(c) ==
    \/ c = "-"
    \/ /\ Len(c) >= 1 /\ Len(c) <= 4
       /\ \A i \in 1..Len(c) : IndexOf(CharAt(c, i), "KQkq") > 0
       /\ \A i \in 1..Len(c), j \in 1..Len(c) :
             (i < j /\ CharAt(c, i) \in {"k", "q"}) => CharAt(c, j) \in {"k", "q"}
       /\ Cardinality({i \in 1..Len(c) : CharAt(c, i) \in {"K", "Q"}}) <= 2
       /\ Cardinality({i \in 1..Len(c) : CharAt(c, i) \in {"k", "q"}}) <= 2

BoardError(text) == [ok |-> FALSE, error |-> text]

\* chess.Board(fen): the board a FEN string denotes, or the ValueError the
\* library raises for a string that is no FEN.  Missing trailing fields take
\* the library's defaults (w, -, -, 0, 1).
Board(fen) ==
    LET parts == SplitWs(fen)
        field(i, dflt) == IF Len(parts) >= i THEN parts[i] ELSE dflt
        rows == Split(field(1, ""), "/")
        cells == Tuple([i \in 1..Len(rows) |-> ExpandRank(rows[i], 1, FALSE)])
        turn == field(2, "w")
        castling == field(3, "-")
        ep == field(4, "-")
        half == StrToInt(field(5, "0"))
        full == StrToInt(field(6, "1"))
    IN  IF Len(parts) = 0 THEN BoardError("empty fen")
        ELSE IF turn \notin {"w", "b"} THEN BoardError("expected 'w' or 'b' for turn part of fen")
        ELSE IF ~CastlingFieldOk(castling) THEN BoardError("invalid castling part in fen")
        ELSE IF ep # "-" /\ SquareIndex(ep) < 0 THEN BoardError("invalid en passant part in fen")
        ELSE IF half < 0 THEN BoardError("invalid half-move clock in fen")
        ELSE IF full < 0 THEN BoardError("invalid fullmove number in fen")
        ELSE IF Len(parts) > 6 THEN BoardError("fen string has more parts than expected")
        ELSE IF Len(rows) # 8 THEN BoardError("expected 8 rows in position part of fen")
        ELSE IF \E i \in 1..8 : ~RankOk(cells[i]) THEN BoardError("invalid position part of fen")
        ELSE [ok |-> TRUE,
              board |-> Table([sq \in Squares |-> CharAt(cells[8 - Rank(sq)], File(sq) + 1)]),
              turn |-> turn,
              castling |-> IF castling = "-" THEN {}
                           ELSE {CharAt(castling, i) : i \in 1..Len(castling)},
              ep |-> IF ep = "-" THEN -1 ELSE SquareIndex(ep),
              halfmove |-> half,
              fullmove |-> IF full < 1 THEN 1 ELSE full]

(***************************************************************************)
(* Moves (chess.Move).  A move is its source and target squares and a      *)
(* promotion kind ("" when none); the null move 0000 and a drop (P@e4)     *)
(* parse too and are never legal.                                          *)
(***************************************************************************)
Move(from, to, promotion) ==
    [ok |-> TRUE, from |-> from, to |-> to, promotion |-> promotion, special |-> ""]
MoveError(text) == [ok |-> FALSE, error |-> text]
\* repr(s) of a string without quotes in it
Repr(s) == "'" \o s \o "'"

\* chess.Move.from_uci(uci): the move, or the InvalidMoveError (a ValueError)
\* the library raises.
from_uci(uci) ==
    IF uci = "0000" THEN [Move(0, 0, "") EXCEPT !.special = "null"]
    ELSE IF Len(uci) = 4 /\ CharAt(uci, 2) = "@"
    THEN IF IsPieceChar(CharAt(uci, 1)) /\ SquareIndex(SubSeq(uci, 3, 4)) >= 0
         THEN [Move(SquareIndex(SubSeq(uci, 3, 4)), SquareIndex(SubSeq(uci, 3, 4)), "")
                   EXCEPT !.special = "drop"]
         ELSE MoveError("invalid uci: " \o Repr(uci))
    ELSE IF Len(uci) = 4 \/ Len(uci) = 5
    THEN LET from == SquareIndex(SubSeq(uci, 1, 2))
             to == SquareIndex(SubSeq(uci, 3, 4))
             promotion == IF Len(uci) = 5 THEN CharAt(uci, 5) ELSE ""
         IN  IF from < 0 \/ to < 0 \/ (Len(uci) = 5 /\ IndexOf(promotion, "pnbrqk") = 0)
             THEN MoveError("invalid uci: " \o Repr(uci))
             ELSE IF from = to THEN MoveError("invalid uci (use 0000 for null moves): " \o Repr(uci))
             ELSE Move(from, to, promotion)
    ELSE MoveError("expected uci string to be of length 4 or 5: " \o Repr(uci))

\* Move.uci()
uci(m) ==
    IF m.special = "null" THEN "0000"
    ELSE SquareName(m.from) \o SquareName(m.to) \o m.promotion

(***************************************************************************)
(* Attacks.                                                                *)
(***************************************************************************)
Sign(n) == IF n > 0 THEN 1 ELSE IF n < 0 THEN -1 ELSE 0
Abs(n) == IF n < 0 THEN -n ELSE n
Max(a, b) == IF a > b THEN a ELSE b

\* Every square strictly between two squares of one line is empty.
PathClear(bd, from, to) ==
    LET df == File(to) - File(from)
        dr == Rank(to) - Rank(from)
        n == Max(Abs(df), Abs(dr))
    IN  \A k \in 1..(n - 1) : bd[Sq(File(from) + k * Sign(df), Rank(from) + k * Sign(dr))] = "."

DescSquares == Tuple([i \in 1..64 |-> 64 - i])

\* Piece p on `from` attacks `to` on an empty board.
Reaches(p, from, to) ==
    LET kind == KindOf(p)
        df == File(to) - File(from)
        dr == Rank(to) - Rank(from)
    IN  /\ from # to
        /\ CASE kind = "n" -> {Abs(df), Abs(dr)} = {1, 2}
             [] kind = "k" -> Abs(df) <= 1 /\ Abs(dr) <= 1
             [] kind = "p" -> Abs(df) = 1 /\ dr = (IF p = "P" THEN 1 ELSE -1)
             [] kind = "r" -> df = 0 \/ dr = 0
             [] kind = "b" -> Abs(df) = Abs(dr)
             [] kind = "q" -> df = 0 \/ dr = 0 \/ Abs(df) = Abs(dr)

\* The library's attack tables: the squares a piece reaches on an empty
\* board, from the highest square down.
ReachTable ==
    Table([p \in WhitePieces \cup BlackPieces |->
        Table([from \in Squares |-> SelectSeq(DescSquares, LAMBDA to : Reaches(p, from, to))])])

IsSlider(p) == KindOf(p) \in {"r", "b", "q"}

\* The squares the piece on `from` attacks, from the highest square down.
AttackedFrom(bd, from) ==
    IF IsSlider(bd[from])
    THEN SelectSeq(ReachTable[bd[from]][from], LAMBDA to : PathClear(bd, from, to))
    ELSE ReachTable[bd[from]][from]

\* The piece on `from` attacks square `to` (whatever stands on `to`).
Attacks(bd, from, to) ==
    /\ bd[from] # "."
    /\ Reaches(bd[from], from, to)
    /\ IsSlider(bd[from]) => PathClear(bd, from, to)

\* Board.is_attacked_by(color, sq)
IsAttackedBy(bd, color, sq) ==
    \E from \in Squares : ColorOf(bd[from]) = color /\ Attacks(bd, from, sq)

\* Board.king(color): the king's square, -1 when the side has no king.
King(bd, color) ==
    IF \E sq \in Squares : bd[sq] = PieceOf("k", color)
    THEN CHOOSE sq \in Squares : bd[sq] = PieceOf("k", color)
    ELSE -1

\* Board.is_check()
IsCheck(b) ==
    King(b.board, b.turn) >= 0 /\ IsAttackedBy(b.board, Other(b.turn), King(b.board, b.turn))

(***************************************************************************)
(* Pseudo-legal and legal moves, in the order the library generates them.  *)
(***************************************************************************)
RECURSIVE Concat(_)
Concat(seqs) == IF Len(seqs) = 0 THEN <<>> ELSE Head(seqs) \o Concat(Tail(seqs))

\* The castling rights that still have their king and rook at home.
CleanCastling(b) ==
    {c \in b.castling :
        \/ c = "K" /\ b.board[4] = "K" /\ b.board[7] = "R"
        \/ c = "Q" /\ b.board[4] = "K" /\ b.board[0] = "R"
        \/ c = "k" /\ b.board[60] = "k" /\ b.board[63] = "r"
        \/ c = "q" /\ b.board[60] = "k" /\ b.board[56] = "r"}

PromotionKinds == <<"q", "r", "b", "n">>
LastRank(color) == IF color = "w" THEN 7 ELSE 0
Forward(color) == IF color = "w" THEN 8 ELSE -8

\* A pawn move to the last rank is its four promotions, any other the plain move.
PawnMoveTo(b, from, to) ==
    IF Rank(to) = LastRank(b.turn)
    THEN [i \in 1..4 |-> Move(from, to, PromotionKinds[i])]
    ELSE <<Move(from, to, "")>>

\* Moves of the pieces that are no pawns, from the highest square down.
PieceMoves(b, includeKing) ==
    LET own(sq) == /\ ColorOf(b.board[sq]) = b.turn
                   /\ KindOf(b.board[sq]) # "p"
                   /\ (includeKing \/ KindOf(b.board[sq]) # "k")
        fs == SelectSeq(DescSquares, own)
        targets(from) == SelectSeq(AttackedFrom(b.board, from),
                            LAMBDA to : ColorOf(b.board[to]) # b.turn)
        movesFrom(from) == LET ts == targets(from) IN [i \in 1..Len(ts) |-> Move(from, ts[i], "")]
    IN  Concat([i \in 1..Len(fs) |-> movesFrom(fs[i])])

\* Board.generate_castling_moves: king side first, then queen side.
CastlingMoves(b) ==
    LET home == IF b.turn = "w" THEN 4 ELSE 60
        free(sqs) == \A sq \in sqs : b.board[sq] = "."
        safe(sqs) == \A sq \in sqs : ~IsAttackedBy(b.board, Other(b.turn), sq)
        kingSide == /\ (IF b.turn = "w" THEN "K" ELSE "k") \in CleanCastling(b)
                    /\ free({home + 1, home + 2})
                    /\ safe({home, home + 1, home + 2})
        queenSide == /\ (IF b.turn = "w" THEN "Q" ELSE "q") \in CleanCastling(b)
                     /\ free({home - 1, home - 2, home - 3})
                     /\ safe({home, home - 1, home - 2})
    IN  (IF kingSide THEN <<Move(home, home + 2, "")>> ELSE <<>>)
        \o (IF queenSide THEN <<Move(home, home - 2, "")>> ELSE <<>>)

PawnCaptures(b) ==
    LET fs == SelectSeq(DescSquares, LAMBDA sq : b.board[sq] = PieceOf("p", b.turn))
        targets(from) == SelectSeq(AttackedFrom(b.board, from),
                            LAMBDA to : ColorOf(b.board[to]) = Other(b.turn))
        movesFrom(from) == LET ts == targets(from)
                           IN  Concat([i \in 1..Len(ts) |-> PawnMoveTo(b, from, ts[i])])
    IN  Concat([i \in 1..Len(fs) |-> movesFrom(fs[i])])

PawnPushes(b) ==
    LET ts == SelectSeq(DescSquares,
                  LAMBDA to : /\ b.board[to] = "."
                              /\ to - Forward(b.turn) \in Squares
                              /\ b.board[to - Forward(b.turn)] = PieceOf("p", b.turn))
    IN  Concat([i \in 1..Len(ts) |-> PawnMoveTo(b, ts[i] - Forward(b.turn), ts[i])])

PawnDoublePushes(b) ==
    LET ts == SelectSeq(DescSquares,
                  LAMBDA to : /\ Rank(to) = (IF b.turn = "w" THEN 3 ELSE 4)
                              /\ b.board[to] = "."
                              /\ b.board[to - Forward(b.turn)] = "."
                              /\ b.board[to - 2 * Forward(b.turn)] = PieceOf("p", b.turn))
    IN  [i \in 1..Len(ts) |-> Move(ts[i] - 2 * Forward(b.turn), ts[i], "")]

\* Board.generate_pseudo_legal_ep
EnPassantMoves(b) ==
    IF b.ep <= 0 \/ b.board[b.ep] # "." THEN <<>>
    ELSE LET fs == SelectSeq(DescSquares,
                      LAMBDA sq : /\ b.board[sq] = PieceOf("p", b.turn)
                                  /\ Rank(sq) = (IF b.turn = "w" THEN 4 ELSE 3)
                                  /\ Attacks(b.board, sq, b.ep))
         IN  [i \in 1..Len(fs) |-> Move(fs[i], b.ep, "")]

\* Board.generate_pseudo_legal_moves
PseudoLegalMoves(b, includeKing) ==
    PieceMoves(b, includeKing)
    \o (IF includeKing THEN CastlingMoves(b) ELSE <<>>)
    \o PawnCaptures(b) \o PawnPushes(b) \o PawnDoublePushes(b) \o EnPassantMoves(b)

IsEnPassant(b, m) ==
    /\ KindOf(b.board[m.from]) = "p"
    /\ m.to = b.ep
    /\ File(m.to) # File(m.from)
    /\ b.board[m.to] = "."

\* Board._from_chess960 of a standard game: a king on its home square moving
\* onto the corner square of its own rank stands for the castling move to
\* that side.
from_chess960(b, m) ==
    IF KindOf(b.board[m.from]) = "k" /\ m.promotion = "" /\ m.from \in {4, 60}
    THEN IF m.to = m.from + 3 THEN Move(m.from, m.from + 2, "")
         ELSE IF m.to = m.from - 4 THEN Move(m.from, m.from - 2, "")
         ELSE m
    ELSE m

\* Board.is_castling(move): a king moving two files or more, or onto a rook
\* of its own side.
IsCastling(b, m) ==
    /\ KindOf(b.board[m.from]) = "k"
    /\ \/ Abs(File(m.to) - File(m.from)) > 1
       \/ b.board[m.to] = PieceOf("r", b.turn)

\* The squares of the board after a move, as Board.push leaves them: in
\* castling the king and the rook are lifted and set down on the squares of
\* the castled side, whichever way the move was written.
BoardAfter(b, m) ==
    LET p == b.board[m.from]
        placed == IF m.promotion # "" THEN PieceOf(m.promotion, b.turn) ELSE p
        moved == [b.board EXCEPT ![m.from] = ".", ![m.to] = placed]
    IN  IF IsEnPassant(b, m) THEN [moved EXCEPT ![m.to - Forward(b.turn)] = "."]
        ELSE IF IsCastling(b, m)
        THEN IF File(m.to) > File(m.from)
             THEN [b.board EXCEPT ![m.from] = ".", ![m.from + 3] = ".",
                                  ![m.from + 2] = p, ![m.from + 1] = PieceOf("r", b.turn)]
             ELSE [b.board EXCEPT ![m.from] = ".", ![m.from - 4] = ".",
                                  ![m.from - 2] = p, ![m.from - 1] = PieceOf("r", b.turn)]
        ELSE moved

\* Board.is_into_check(move): the move leaves the mover's king attacked.
IsIntoCheck(b, m) ==
    LET after == BoardAfter(b, m)
        king == King(after, b.turn)
    IN  king >= 0 /\ IsAttackedBy(after, Other(b.turn), king)

SameMove(a, m) == a.from = m.from /\ a.to = m.to /\ a.promotion = m.promotion

\* Board.is_pseudo_legal(move)
IsPseudoLegal(b, m) ==
    /\ m.special = ""
    /\ ColorOf(b.board[m.from]) = b.turn
    /\ LET kind == KindOf(b.board[m.from]) IN
       IF kind = "p"
       THEN LET ms == PawnCaptures(b) \o PawnPushes(b) \o PawnDoublePushes(b) \o EnPassantMoves(b)
            IN  \E i \in 1..Len(ms) : SameMove(ms[i], m)
       ELSE /\ m.promotion = ""
            /\ \/ Attacks(b.board, m.from, m.to) /\ ColorOf(b.board[m.to]) # b.turn
               \/ kind = "k" /\ \E i \in 1..Len(CastlingMoves(b)) :
                                    SameMove(CastlingMoves(b)[i], from_chess960(b, m))

\* `move in board.legal_moves` (Board.is_legal)
IsLegal(b, m) == IsPseudoLegal(b, m) /\ ~IsIntoCheck(b, m)

\* list(board.legal_moves): when the side to move is in check the library
\* generates the king's moves first.
LegalMoves(b) ==
    LET safe(m) == ~IsIntoCheck(b, m) IN
    IF IsCheck(b)
    THEN SelectSeq(SelectSeq(PieceMoves(b, TRUE), LAMBDA m : KindOf(b.board[m.from]) = "k"), safe)
         \o SelectSeq(PseudoLegalMoves(b, FALSE), safe)
    ELSE SelectSeq(PseudoLegalMoves(b, TRUE), safe)

\* Board.push(move) for a legal move: the board after it.
Push(b, m) ==
    LET p == b.board[m.from]
        zeroing == KindOf(p) = "p" \/ ColorOf(b.board[m.to]) = Other(b.turn)
        touched(sq) == m.from = sq \/ m.to = sq
        lost == (IF touched(7) THEN {"K"} ELSE {}) \cup (IF touched(0) THEN {"Q"} ELSE {})
                \cup (IF touched(63) THEN {"k"} ELSE {}) \cup (IF touched(56) THEN {"q"} ELSE {})
                \cup (IF p = "K" THEN {"K", "Q"} ELSE {}) \cup (IF p = "k" THEN {"k", "q"} ELSE {})
    IN  [ok |-> TRUE,
         board |-> BoardAfter(b, m),
         turn |-> Other(b.turn),
         castling |-> b.castling \ lost,
         ep |-> IF KindOf(p) = "p" /\ Abs(m.to - m.from) = 16
                   /\ Rank(m.from) = (IF b.turn = "w" THEN 1 ELSE 6)
                THEN m.from + Forward(b.turn) ELSE -1,
         halfmove |-> IF zeroing THEN 0 ELSE b.halfmove + 1,
         fullmove |-> IF b.turn = "b" THEN b.fullmove + 1 ELSE b.fullmove]

\* One rank of the piece placement: runs of empty squares become digits.
RECURSIVE RankFen(_, _, _, _)
RankFen(bd, r, f, empty) ==
    LET flush == IF empty > 0 THEN DigitStr(empty) ELSE "" IN
    IF f > 7 THEN flush
    ELSE IF bd[Sq(f, r)] = "." THEN RankFen(bd, r, f + 1, empty + 1)
    ELSE flush \o bd[Sq(f, r)] \o RankFen(bd, r, f + 1, 0)

\* Board.board_fen()
BoardFen(bd) == Join([i \in 1..8 |-> RankFen(bd, 8 - i, 0, 0)], "/")

\* Board.has_legal_en_passant()
HasLegalEnPassant(b) ==
    LET ms == EnPassantMoves(b) IN \E i \in 1..Len(ms) : ~IsIntoCheck(b, ms[i])

CastlingFen(b) ==
    LET rights == CleanCastling(b)
        text == Join(SelectSeq(<<"K", "Q", "k", "q">>, LAMBDA c : c \in rights), "")
    IN  IF text = "" THEN "-" ELSE text

\* Board.fen(): the en passant square is written only when a legal en
\* passant capture exists.
Fen(b) ==
    Join(<<BoardFen(b.board), b.turn, CastlingFen(b),
           IF HasLegalEnPassant(b) THEN SquareName(b.ep) ELSE "-",
           IntToStr(b.halfmove), IntToStr(b.fullmove)>>, " ")

\* chess.STARTING_FEN
STARTING_FEN == "rnbqkbnr/pppppppp/8/8/8/8/PPPPPPPP/RNBQKBNR w KQkq - 0 1"

(***************************************************************************)
(* agent/chess_api.py                                                      *)
(***************************************************************************)
\* What a Python call gives back: a value, or the exception it raised
\* (`raised` names its class, `value` is then its text).
Return(v) == [raised |-> "", value |-> v]
Raise(class, text) == [raised |-> class, value |-> text]

\* None of Python, and the test `not x` of an Optional[str].
None == "None"
Falsy(x) == x = None \/ x = ""

\* A str given to decode_fen is the sequence of its characters.  A
\* character is a string of length one or, for the characters outside
\* ASCII, the name of its code point: U+0668 is ARABIC-INDIC DIGIT EIGHT,
\* a decimal digit, and U+00B2 is SUPERSCRIPT TWO, a digit that is no
\* decimal digit.
Str(s) == [i \in 1..Len(s) |-> CharAt(s, i)]

\* str.isdigit(), str.isspace() and int() of one character.
isdigit(c) == IsDigit(c) \/ c \in {"U+0668", "U+00B2"}
isspace(c) == c \in {" ", "\t", "\n"}
int_char(c) ==
    IF IsDigit(c) THEN Return(IndexOf(c, "0123456789") - 1)
    ELSE IF c = "U+0668" THEN Return(8)
    ELSE Raise("ValueError", "invalid literal for int() with base 10")

\* str.split() and str.split(sep) of a sequence of characters.
RECURSIVE split_from(_, _, _, _)
split_from(cs, seps, i, cur) ==
    IF i > Len(cs) THEN <<cur>>
    ELSE IF cs[i] \in seps THEN <<cur>> \o split_from(cs, seps, i + 1, <<>>)
    ELSE split_from(cs, seps, i + 1, Append(cur, cs[i]))

split_ws(cs) == SelectSeq(split_from(cs, {" ", "\t", "\n"}, 1, <<>>), LAMBDA part : part # <<>>)
split_on(cs, sep) == split_from(cs, {sep}, 1, <<>>)

RECURSIVE decode_rank(_, _, _)
\* The inner loop of decode_fen over the characters of one rank, from
\* character i on, `rank` being the squares gathered so far.
decode_rank(rank_str, i, rank) ==
    IF i > Len(rank_str) THEN Return(rank)
    ELSE IF isdigit(rank_str[i])
    THEN IF int_char(rank_str[i]).raised # "" THEN int_char(rank_str[i])
         ELSE IF int_char(rank_str[i]).value < 1 \/ int_char(rank_str[i]).value > 8
         THEN Raise("ValueError", "Invalid empty square count")
         ELSE decode_rank(rank_str, i + 1,
                          rank \o [k \in 1..int_char(rank_str[i]).value |-> None])
    ELSE IF IsPieceChar(rank_str[i]) THEN decode_rank(rank_str, i + 1, Append(rank, rank_str[i]))
    ELSE Raise("ValueError", "Invalid character in FEN: '" \o rank_str[i] \o "'")

\* The outer loop of decode_fen over the ranks, from rank rank_idx on.
RECURSIVE decode_ranks(_, _, _)
decode_ranks_of(ranks, rank_idx, board, rank) ==
    IF rank.raised # "" THEN rank
    ELSE IF Len(rank.value) # 8
    THEN Raise("ValueError", "Rank " \o IntToStr(rank_idx) \o " has "
                             \o IntToStr(Len(rank.value)) \o " squares, expected 8")
    ELSE decode_ranks(ranks, rank_idx + 1, Append(board, rank.value))

decode_ranks(ranks, rank_idx, board) ==
    IF rank_idx > Len(ranks) THEN Return(board)
    ELSE decode_ranks_of(ranks, rank_idx, board, decode_rank(ranks[rank_idx], 1, <<>>))

decode_fen_of(parts) ==
    IF parts = <<>> THEN Raise("ValueError", "Empty FEN string")
    ELSE IF Len(split_on(parts[1], "/")) # 8
    THEN Raise("ValueError", "FEN must have 8 ranks, got "
                             \o IntToStr(Len(split_on(parts[1], "/"))))
    ELSE decode_ranks(split_on(parts[1], "/"), 1, <<>>)

decode_fen(fen) == decode_fen_of(split_ws(fen))

\* A variant of update_fen_of that reports an illegal move in the words of
\* a move that does not parse.
update_fen_of_one_error(fen, move, board, chess_move) ==
    IF ~board.ok THEN Raise("ValueError", "Invalid FEN string: " \o board.error)
    ELSE IF ~chess_move.ok THEN Raise("ValueError", "Invalid move format: " \o chess_move.error)
    ELSE IF ~IsLegal(board, chess_move)
    THEN Raise("ValueError", "Invalid move format: " \o move)
    ELSE Return(Fen(Push(board, chess_move)))

\* update_fen once chess.Board(fen) and chess.Move.from_uci(move) are known.
update_fen_of(fen, move, board, chess_move) ==
    IF ~board.ok THEN Raise("ValueError", "Invalid FEN string: " \o board.error)
    ELSE IF ~chess_move.ok THEN Raise("ValueError", "Invalid move format: " \o chess_move.error)
    ELSE IF ~IsLegal(board, chess_move)
    THEN Raise("ValueError", "Illegal move: " \o move \o " in position " \o fen)
    ELSE Return(Fen(Push(board, chess_move)))

\* A variant of update_fen that keeps its board from one call to the next:
\* while a replay is under way the move is applied to the position the
\* call before it returned, whichever replay made it.
update_fen_kept_board(fen, move) ==
    IF call.fn = "replay" /\ ret.value[1] # <<>> /\ Len(ret.value[1]) >= Len(ret.value[2])
    THEN update_fen_of(ret.value[1][Len(ret.value[1])].value, move,
                       Board(ret.value[1][Len(ret.value[1])].value), from_uci(move))
    ELSE update_fen_of(fen, move, Board(fen), from_uci(move))

update_fen(fen, move) == update_fen_of(fen, move, Board(fen), from_uci(move))

\* Python values a helper returns that are not strings: None, an int, a
\* float (kept as its text).
PyNone == [t |-> "NoneType", n |-> 0, s |-> ""]
PyInt(n) == [t |-> "int", n |-> n, s |-> ""]
PyFloat(s) == [t |-> "float", n |-> 0, s |-> s]
PyStr(s) == [t |-> "str", n |-> 0, s |-> s]
\* A key the JSON object does not have.
Absent == [t |-> "absent", n |-> 0, s |-> ""]

\* str.strip() for blanks.
RECURSIVE LStrip(_)
LStrip(s) == IF Len(s) > 0 /\ CharAt(s, 1) = " " THEN LStrip(SubSeq(s, 2, Len(s))) ELSE s
RECURSIVE RStrip(_)
RStrip(s) ==
    IF Len(s) > 0 /\ CharAt(s, Len(s)) = " " THEN RStrip(SubSeq(s, 1, Len(s) - 1)) ELSE s
Strip(s) == RStrip(LStrip(s))

\* int(s) of a str: blanks around it and one sign are allowed, then decimal
\* digits only; anything else is a ValueError.
int_digits(s, sign) ==
    IF StrToInt(s) < 0
    THEN Raise("ValueError", "invalid literal for int() with base 10")
    ELSE Return(sign * StrToInt(s))
int_stripped(s) ==
    IF Len(s) > 0 /\ CharAt(s, 1) = "-" THEN int_digits(SubSeq(s, 2, Len(s)), -1)
    ELSE IF Len(s) > 0 /\ CharAt(s, 1) = "+" THEN int_digits(SubSeq(s, 2, Len(s)), 1)
    ELSE int_digits(s, 1)
int(s) == int_stripped(Strip(s))

\* What one POST to the analysis service can come to.  `failure` names the
\* exception the HTTP client raises ("" when there is none): ClientError or
\* TimeoutError while the request is made, and while the body of a 200
\* response is read ContentTypeError (a ClientError), JSONDecodeError or
\* UnicodeDecodeError.  Otherwise `status` is the status of the response
\* and, for a 200 response, `type`, `move` and `mate` are those keys of the
\* JSON object in its body ("<absent>" and Absent for a key it lacks).
Reply(failure, status, type, move, mate) ==
    [failure |-> failure, status |-> status, type |-> type, move |-> move, mate |-> mate]

\* The answers a tool_get_best_move call of the conversation meets: a best
\* move, a 200 response without the move field, a failure of the service.
ServiceReplies ==
    { Reply("", 200, "bestmove", "e7e5", Absent),
      Reply("", 200, "info", "<absent>", Absent),
      Reply("", 500, "", "<absent>", Absent) }

ClientErrors == {"ClientError", "ContentTypeError"}
RequestFailures == {"ClientError", "TimeoutError"}
BodyFailures == {"ContentTypeError", "JSONDecodeError", "UnicodeDecodeError"}

\* The JSON payload analyze_position builds, a record of the keys it has.
Payload(fen, input_text, variants, depth, max_thinking_time, searchmoves) ==
    (IF Falsy(searchmoves) THEN <<>> ELSE [searchmoves |-> searchmoves])
    @@ (IF Falsy(input_text) THEN <<>> ELSE [input |-> input_text])
    @@ (IF Falsy(fen) THEN <<>> ELSE [fen |-> fen])
    @@ [variants |-> variants, depth |-> depth, maxThinkingTime |-> max_thinking_time]

\* A variant of analyze_position_request that does not check depth.
analyze_position_request_any_depth(fen, input_text, variants, depth, max_thinking_time, searchmoves) ==
    IF Falsy(fen) /\ Falsy(input_text)
    THEN Raise("ValueError", "Either 'fen' or 'input_text' must be provided")
    ELSE IF variants < 1 \/ variants > 5
    THEN Raise("ValueError", "variants must be between 1 and 5")
    ELSE IF max_thinking_time < 1 \/ max_thinking_time > 100
    THEN Raise("ValueError", "max_thinking_time must be between 1 and 100")
    ELSE Return(Payload(fen, input_text, variants, depth, max_thinking_time, searchmoves))

\* analyze_position up to the request: the checks of its arguments, then
\* the payload it posts.
analyze_position_request(fen, input_text, variants, depth, max_thinking_time, searchmoves) ==
    IF Falsy(fen) /\ Falsy(input_text)
    THEN Raise("ValueError", "Either 'fen' or 'input_text' must be provided")
    ELSE IF variants < 1 \/ variants > 5
    THEN Raise("ValueError", "variants must be between 1 and 5")
    ELSE IF depth < 1 \/ depth > 18
    THEN Raise("ValueError", "depth must be between 1 and 18")
    ELSE IF max_thinking_time < 1 \/ max_thinking_time > 100
    THEN Raise("ValueError", "max_thinking_time must be between 1 and 100")
    ELSE Return(Payload(fen, input_text, variants, depth, max_thinking_time, searchmoves))

\* analyze_position from the request on: the exceptions of the HTTP client
\* that are caught (aiohttp.ClientError, json.JSONDecodeError) become a
\* ChessAPIError and any other leaves the function as it is.
analyze_position_response(reply) ==
    IF reply.failure \in RequestFailures \/ (reply.status = 200 /\ reply.failure \in BodyFailures)
    THEN IF reply.failure \in ClientErrors
         THEN Raise("ChessAPIError", "Network error during API request: " \o reply.failure)
         ELSE IF reply.failure = "JSONDecodeError"
         THEN Raise("ChessAPIError", "Failed to parse API response: " \o reply.failure)
         ELSE Raise(reply.failure, "")
    ELSE IF reply.status # 200
    THEN Raise("ChessAPIError", "API request failed with status " \o IntToStr(reply.status))
    ELSE IF reply.type = "error" THEN Raise("ChessAPIError", "API error")
    ELSE Return(reply)

analyze_position(fen, input_text, variants, depth, max_thinking_time, searchmoves, reply) ==
    IF analyze_position_request(fen, input_text, variants, depth, max_thinking_time,
                                searchmoves).raised # ""
    THEN analyze_position_request(fen, input_text, variants, depth, max_thinking_time, searchmoves)
    ELSE analyze_position_response(reply)

\* result.get("move", "")
get_best_move(fen, reply) ==
    LET result == analyze_position(fen, None, 1, 12, 50, "", reply) IN
    IF result.raised # "" THEN result
    ELSE Return(IF result.value.move = "<absent>" THEN "" ELSE result.value.move)

\* result.get("mate"), a str turned into an int or, failing that, None.
check_for_mate_of(result) ==
    IF result.raised # "" THEN result
    ELSE IF result.value.mate = Absent THEN Return(PyNone)
    ELSE IF result.value.mate.t = "str"
    THEN IF int(result.value.mate.s).raised # ""
         THEN Return(PyNone)
         ELSE Return(PyInt(int(result.value.mate.s).value))
    ELSE Return(result.value.mate)

check_for_mate(fen, reply) == check_for_mate_of(analyze_position(fen, None, 1, 12, 50, "", reply))

(***************************************************************************)
(* agent/graph.py: the tools and the move validator                        *)
(***************************************************************************)
tool_get_best_move(fen, reply) == get_best_move(fen, reply)
tool_register_user_move(move) == Return(move)
tool_make_move(move) == Return(move)

\* A variant of MoveTools that takes every tool for a move tool.
AllTools == {"tool_register_user_move", "tool_make_move", "tool_get_best_move"}

\* A variant of MoveTools in which only the agent's tool moves a piece.
OnlyMakeMove == {"tool_make_move"}

MoveTools == {"tool_register_user_move", "tool_make_move"}
ToolNames == MoveTools \cup {"tool_get_best_move"}

\* A variant of legal_moves_str that marks a list of ten moves as cut.
legal_moves_str_ten(legal_moves_list) ==
    Join([i \in 1..(IF Len(legal_moves_list) > 10 THEN 10 ELSE Len(legal_moves_list)) |->
            uci(legal_moves_list[i])], ", ")
    \o (IF Len(legal_moves_list) >= 10 THEN ", ..." ELSE "")

\* legal_moves_list[:10] joined, with ", ..." when more exist
legal_moves_str(legal_moves_list) ==
    Join([i \in 1..(IF Len(legal_moves_list) > 10 THEN 10 ELSE Len(legal_moves_list)) |->
            uci(legal_moves_list[i])], ", ")
    \o (IF Len(legal_moves_list) > 10 THEN ", ..." ELSE "")

\* validate_move once chess.Board(position) and chess.Move.from_uci(move) are
\* known: either of them raising is caught and reported as a format error.
validate_move_of(move, position, board, chess_move) ==
    IF ~board.ok
    THEN Return(<<FALSE, "ERROR: Invalid move format '" \o move \o "': " \o board.error>>)
    ELSE IF ~chess_move.ok
    THEN Return(<<FALSE, "ERROR: Invalid move format '" \o move \o "': " \o chess_move.error>>)
    ELSE IF ~IsLegal(board, chess_move)
    THEN Return(<<FALSE, "ERROR: Illegal move '" \o move \o "' in position " \o position
                         \o ". Legal moves include: " \o legal_moves_str(LegalMoves(board))>>)
    ELSE Return(<<TRUE, move>>)

\* A variant of validate_move without the test `not in board.legal_moves`.
validate_move_any_parsed(move, position) ==
    IF ~Board(position).ok \/ ~from_uci(move).ok
    THEN validate_move_of(move, position, Board(position), from_uci(move))
    ELSE Return(<<TRUE, move>>)

\* A variant of validate_move without its `except ValueError`.
validate_move_uncaught(move, position) ==
    IF ~Board(position).ok THEN Raise("ValueError", Board(position).error)
    ELSE IF ~from_uci(move).ok THEN Raise("InvalidMoveError", from_uci(move).error)
    ELSE validate_move_of(move, position, Board(position), from_uci(move))

validate_move(move, position) ==
    validate_move_of(move, position, Board(position), from_uci(move))

(***************************************************************************)
(* Messages.  Every message has the same fields; the ones its role does    *)
(* not use are empty.                                                      *)
(***************************************************************************)
Message(type, content) ==
    [type |-> type, content |-> content, tool_calls |-> <<>>, name |-> "", tool_call_id |-> 0]
SystemMessage(content) == Message("system", content)
HumanMessage(content) == Message("human", content)
AIMessage(content, tool_calls) == [Message("ai", content) EXCEPT !.tool_calls = tool_calls]
ToolMessage(content, name, tool_call_id) ==
    [Message("tool", content) EXCEPT !.name = name, !.tool_call_id = tool_call_id]
ToolCall(name, args, id) == [name |-> name, args |-> args, id |-> id]
\* Before the provider has answered anything.
NoMessage == Message("none", "")

Last(s) == s[Len(s)]

\* A variant of add_messages in which the update replaces the history.
add_messages_replace(left, right) == right

\* The add_messages reducer of ChessState.messages: the update is appended.
add_messages(left, right) == left \o right

\* The history grows without bound.  The model follows its first message
\* (the system message) and its tail from the latest human or assistant
\* message on: an assistant message stays, with the tool messages that
\* answer it, until the provider's next message.
RECURSIVE TailStart(_, _)
TailStart(h, i) ==
    IF i <= 2 \/ h[i].type \in {"human", "ai"} THEN i ELSE TailStart(h, i - 1)
Recent(h) ==
    IF Len(h) <= 2 THEN h ELSE <<h[1]>> \o SubSeq(h, TailStart(h, Len(h)), Len(h))

\* The call identifiers in the history.
UsedIds(h) ==
    {h[i].tool_call_id : i \in {j \in 1..Len(h) : h[j].type = "tool"}}
    \cup UNION {{h[i].tool_calls[k].id : k \in 1..Len(h[i].tool_calls)} : i \in 1..Len(h)}

\* The provider gives every tool call an identifier of its own: here the
\* k-th number of the first block of MaxBatch numbers that no message of
\* the history uses.
RECURSIVE FreshBlock(_, _)
FreshBlock(used, start) ==
    IF \E n \in (start + 1)..(start + MaxBatch) : n \in used
    THEN FreshBlock(used, start + MaxBatch) ELSE start
FreshId(used, k) == FreshBlock(used, 0) + k

(***************************************************************************)
(* agent/graph.py: tools_node                                              *)
(***************************************************************************)
\* One tool of the ToolNode run on one call.
RunTool(tool_call, reply) ==
    IF tool_call.name = "tool_get_best_move" THEN tool_get_best_move(tool_call.args, reply)
    ELSE IF tool_call.name = "tool_register_user_move" THEN tool_register_user_move(tool_call.args)
    ELSE tool_make_move(tool_call.args)

\* tool_executor.ainvoke(state): one tool message per tool call of the last
\* message, in the order of the calls.  A tool that raised either makes the
\* whole run raise or, when the ToolNode handles tool errors, is answered by
\* a message holding the error.
ToolNode(state_messages, replies, handle_tool_errors) ==
    LET calls == Last(state_messages).tool_calls
        out(i) == RunTool(calls[i], replies[i])
        failed == {i \in 1..Len(calls) : out(i).raised # ""}
    IN  IF failed # {} /\ ~handle_tool_errors
        THEN LET first == CHOOSE i \in failed : \A j \in failed : i <= j
             IN  Raise(out(first).raised, out(first).value)
        ELSE Return([i \in 1..Len(calls) |->
                        ToolMessage(IF out(i).raised # ""
                                    THEN "Error: " \o out(i).raised \o "('" \o out(i).value
                                         \o "') Please fix your mistakes."
                                    ELSE out(i).value,
                                    calls[i].name, calls[i].id)])

\* The loop of tools_node over the new tool messages: the working position
\* and the messages (a rejected move's message rewritten) after message i
\* and the ones that follow it.
RECURSIVE tools_node_loop(_, _, _)
\* A variant of tools_node_move in which a rejection ends the loop.
tools_node_move_break(new_messages, i, position, checked, updated) ==
    IF checked.raised # "" THEN checked
    ELSE IF ~checked.value[1]
    THEN Return([messages |-> [new_messages EXCEPT ![i].content = checked.value[2]],
                 current_position |-> position])
    ELSE IF updated.raised # "" THEN updated
    ELSE tools_node_loop(new_messages, i + 1, updated.value)

\* A variant of tools_node_move that leaves a rejected move's message as it is.
tools_node_move_keep(new_messages, i, position, checked, updated) ==
    IF checked.raised # "" THEN checked
    ELSE IF ~checked.value[1] THEN tools_node_loop(new_messages, i + 1, position)
    ELSE IF updated.raised # "" THEN updated
    ELSE tools_node_loop(new_messages, i + 1, updated.value)

\* A variant of tools_node_move that calls update_fen whatever validate_move
\* returned.
tools_node_move_unchecked(new_messages, i, position, checked, updated) ==
    IF checked.raised # "" THEN checked
    ELSE IF updated.raised # "" THEN updated
    ELSE tools_node_loop(new_messages, i + 1, updated.value)

\* The body of the loop for a move tool's message i, `checked` being what
\* validate_move returned for it and `updated` what update_fen returns.
tools_node_move(new_messages, i, position, checked, updated) ==
    IF checked.raised # "" THEN checked
    ELSE IF ~checked.value[1]
    THEN tools_node_loop([new_messages EXCEPT ![i].content = checked.value[2]], i + 1, position)
    ELSE IF updated.raised # "" THEN updated
    ELSE tools_node_loop(new_messages, i + 1, updated.value)

tools_node_loop(new_messages, i, position) ==
    IF i > Len(new_messages)
    THEN Return([messages |-> new_messages, current_position |-> position])
    ELSE IF new_messages[i].type = "tool" /\ new_messages[i].name \in MoveTools
    THEN IF position = None
         THEN tools_node_loop(new_messages, i, STARTING_FEN)
         ELSE tools_node_move(new_messages, i, position,
                              validate_move(new_messages[i].content, position),
                              update_fen(position, new_messages[i].content))
    ELSE tools_node_loop(new_messages, i + 1, position)

\* A variant of tools_node that validates every move of the batch against
\* state["current_position"] instead of the working position.
RECURSIVE tools_node_loop_start(_, _, _, _)
tools_node_loop_start(new_messages, i, position, start) ==
    IF i > Len(new_messages)
    THEN Return([messages |-> new_messages, current_position |-> position])
    ELSE IF new_messages[i].type = "tool" /\ new_messages[i].name \in MoveTools
    THEN IF ~validate_move(new_messages[i].content, start).value[1]
         THEN tools_node_loop_start(
                  [new_messages EXCEPT ![i].content =
                       validate_move(new_messages[i].content, start).value[2]],
                  i + 1, position, start)
         ELSE IF update_fen(position, new_messages[i].content).raised # ""
         THEN update_fen(position, new_messages[i].content)
         ELSE tools_node_loop_start(new_messages, i + 1,
                                    update_fen(position, new_messages[i].content).value, start)
    ELSE tools_node_loop_start(new_messages, i + 1, position, start)

tools_node_from_start(state, replies, handle_tool_errors) ==
    IF ToolNode(state.messages, replies, handle_tool_errors).raised # ""
    THEN ToolNode(state.messages, replies, handle_tool_errors)
    ELSE tools_node_loop_start(ToolNode(state.messages, replies, handle_tool_errors).value, 1,
                               state.current_position, state.current_position)

\* A variant of tools_node that returns only the messages of accepted calls.
tools_node_only_accepted(state, replies, handle_tool_errors) ==
    IF ToolNode(state.messages, replies, handle_tool_errors).raised # ""
    THEN ToolNode(state.messages, replies, handle_tool_errors)
    ELSE IF tools_node_loop(ToolNode(state.messages, replies, handle_tool_errors).value, 1,
                            state.current_position).raised # ""
    THEN tools_node_loop(ToolNode(state.messages, replies, handle_tool_errors).value, 1,
                         state.current_position)
    ELSE Return([tools_node_loop(ToolNode(state.messages, replies, handle_tool_errors).value, 1,
                                 state.current_position).value
                 EXCEPT !.messages = SelectSeq(@, LAMBDA m :
                     Len(m.content) < 6 \/ SubSeq(m.content, 1, 6) # "ERROR:")])

\* A variant of tools_node that walks the new tool messages from the last
\* to the first and returns them in that order.
Reversed(xs) == [i \in 1..Len(xs) |-> xs[Len(xs) + 1 - i]]
tools_node_reversed(state, replies, handle_tool_errors) ==
    IF ToolNode(state.messages, replies, handle_tool_errors).raised # ""
    THEN ToolNode(state.messages, replies, handle_tool_errors)
    ELSE tools_node_loop(Reversed(ToolNode(state.messages, replies, handle_tool_errors).value), 1,
                         state.current_position)

\* tools_node(state): the update it returns, or the exception that leaves it.
\* A variant of tools_node that sets the starting position only when a move
\* is accepted.
tools_node_none_kept(state, replies, handle_tool_errors) ==
    LET result == ToolNode(state.messages, replies, handle_tool_errors)
        out == tools_node_loop(result.value, 1, state.current_position)
    IN  IF result.raised # "" THEN result
        ELSE IF out.raised = "" /\ state.current_position = None
                /\ out.value.current_position = STARTING_FEN
        THEN Return([out.value EXCEPT !.current_position = None])
        ELSE out

tools_node(state, replies, handle_tool_errors) ==
    LET result == ToolNode(state.messages, replies, handle_tool_errors) IN
    IF result.raised # "" THEN result
    ELSE tools_node_loop(result.value, 1, state.current_position)

(***************************************************************************)
(* agent/graph.py: agent_node and should_continue                          *)
(***************************************************************************)
END == "__end__"

\* The messages agent_node sends to the provider.
agent_context(state) ==
    state.messages
    \o <<SystemMessage("Current board position (FEN): {\"fen\": \"" \o state.current_position
                       \o "\"}\nUse this FEN when calling tool_get_best_move.")>>

\* A variant of should_continue with its test negated.
should_continue_inverted(state) ==
    IF Last(state.messages).type = "ai" /\ Len(Last(state.messages).tool_calls) > 0
    THEN END ELSE "tools"

\* A variant of should_continue that always ends the graph.
should_continue_end(state) == END

should_continue(state) ==
    LET last_message == Last(state.messages) IN
    IF last_message.type = "ai" /\ Len(last_message.tool_calls) > 0 THEN "tools" ELSE END

\* builder.add_conditional_edges("agent", should_continue, {...}): the node
\* a route leads to; reaching END ends the invocation ("done").
conditional_edges(route) ==
    IF route = "tools" THEN "tools" ELSE IF route = END THEN "done" ELSE "crashed"

\* The tool calls the provider chooses among: the user's move (legal at the
\* start), the agent's reply (legal only after it), an illegal move, a
\* string that is no UCI move, and a request for the best move in the
\* position of the notice.
CandidateCalls(state) ==
    {[name |-> "tool_register_user_move", args |-> "e2e4"],
     [name |-> "tool_make_move", args |-> "e7e5"],
     [name |-> "tool_make_move", args |-> "e2e5"],
     [name |-> "tool_register_user_move", args |-> "Nf3"],
     [name |-> "tool_get_best_move", args |-> state.current_position]}

\* What llm_with_tools.ainvoke can return: a final answer, or an assistant
\* message carrying 1..MaxBatch tool calls with fresh identifiers.
ProviderResponses(state) ==
    {AIMessage("answer", <<>>)}
    \cup {AIMessage("", [i \in 1..Len(cs) |->
                            ToolCall(cs[i].name, cs[i].args, FreshId(UsedIds(state.messages), i))]) :
          cs \in UNION {[1..n -> CandidateCalls(state)] : n \in 1..MaxBatch}}

State == [messages |-> messages, current_position |-> current_position]

(***************************************************************************)
(* The conversation: main's loop around graph.ainvoke, and the graph        *)
(* agent -> (tools -> agent)* -> END.                                      *)
(***************************************************************************)
NoCall == [fn |-> "none", move |-> "", position |-> ""]
NoReturn == Return("<nothing>")
NoRequest == [sent |-> FALSE]

Init ==
    /\ messages = <<SystemMessage("system_prompt")>>
    /\ current_position = "rnbqkbnr/pppppppp/8/8/8/8/PPPPPPPP/RNBQKBNR w KQkq - 0 1"
    /\ pc = "input"
    /\ response = NoMessage
    /\ assistant_message = ""
    /\ call = NoCall
    /\ ret = NoReturn
    /\ request = NoRequest

\* A variant of MainInput in which main builds its state anew at every turn.
MainInputResets ==
    /\ pc = "input"
    /\ messages' = Recent(add_messages(messages, <<HumanMessage("user input")>>))
    /\ current_position' = "rnbqkbnr/pppppppp/8/8/8/8/PPPPPPPP/RNBQKBNR w KQkq - 0 1"
    /\ pc' = "agent"
    /\ UNCHANGED <<response, assistant_message, call, ret, request>>

\* main: the user's message is appended and the graph is invoked; it enters
\* at the agent node.
MainInput ==
    /\ pc = "input"
    /\ messages' = Recent(add_messages(messages, <<HumanMessage("user input")>>))
    /\ pc' = "agent"
    /\ UNCHANGED <<current_position, response, assistant_message, call, ret, request>>

\* agent_node, then the conditional edge should_continue.
AgentNode ==
    /\ pc = "agent"
    /\ \E answer \in ProviderResponses(State) :
          /\ response' = answer
          /\ messages' = Recent(add_messages(messages, <<answer>>))
    /\ pc' = conditional_edges(should_continue([State EXCEPT !.messages = messages']))
    /\ UNCHANGED <<current_position, assistant_message, call, ret, request>>

\* The provider call of agent_node raises: nothing catches it.
AgentRaise ==
    /\ pc = "agent"
    /\ pc' = "crashed"
    /\ UNCHANGED <<messages, current_position, response, assistant_message, call, ret, request>>

\* The answers of the analysis service to the calls of a batch (only a
\* tool_get_best_move call asks it anything).
NoReply == Reply("", 200, "info", "<absent>", Absent)
BatchReplies(calls) ==
    {r \in [1..Len(calls) -> ServiceReplies] :
        \A i \in 1..Len(calls) : calls[i].name # "tool_get_best_move" => r[i] = NoReply}

\* A variant of ToolsNode whose edge leads to END instead of the agent node.
ToolsNodeToEnd ==
    /\ pc = "tools"
    /\ \E replies \in BatchReplies(Last(messages).tool_calls) :
          LET out == tools_node(State, replies, TRUE) IN
          /\ out.raised = ""
          /\ messages' = Recent(add_messages(messages, out.value.messages))
          /\ current_position' = out.value.current_position
    /\ pc' = "done"
    /\ UNCHANGED <<response, assistant_message, call, ret, request>>

\* tools_node returns, then the edge tools -> agent.
ToolsNode ==
    /\ pc = "tools"
    /\ \E replies \in BatchReplies(Last(messages).tool_calls) :
          LET out == tools_node(State, replies, TRUE) IN
          /\ out.raised = ""
          /\ messages' = Recent(add_messages(messages, out.value.messages))
          /\ current_position' = out.value.current_position
    /\ pc' = "agent"
    /\ UNCHANGED <<response, assistant_message, call, ret, request>>

\* tools_node raises (a tool failed and the ToolNode does not handle it).
ToolsRaise ==
    /\ pc = "tools"
    /\ \E replies \in BatchReplies(Last(messages).tool_calls) :
          tools_node(State, replies, FALSE).raised # ""
    /\ pc' = "crashed"
    /\ UNCHANGED <<messages, current_position, response, assistant_message, call, ret, request>>

\* main: the graph reached END; the last message's content is printed.
MainPrint ==
    /\ pc = "done"
    /\ assistant_message' = Last(messages).content
    /\ pc' = "input"
    /\ UNCHANGED <<messages, current_position, response, call, ret, request>>

Next ==
    \/ MainInput
    \/ AgentNode
    \/ AgentRaise
    \/ ToolsNode
    \/ ToolsRaise
    \/ MainPrint

Spec == Init /\ [][Next]_vars

(***************************************************************************)
(* Direct calls: validate_move on a move and a position, and one dispatch  *)
(* cycle (tools_node) on a batch of one move-tool call, for moves and      *)
(* positions drawn from the sets below.                                     *)
(***************************************************************************)
\* Legal and illegal moves, a promotion, a castling move written as the king's
\* move and as the king's move onto its rook, an en passant capture, the
\* null move, a move to its own square, and strings that are
\* no UCI moves: SAN, the empty string, upper case, a space, an extra symbol.
TestMoves ==
    {"e2e4", "e7e5", "e2e5", "g1f3", "e7e8q", "e1g1", "e1h1", "e5f6", "0000", "e2e2",
     "Nf3", "", "E2E4", "e2 e4", "e2e4!"}

\* The start, the position after e2e4, a pawn about to promote, both sides
\* free to castle, an en passant capture on f6, a king in check, positions
\* with exactly 10 and exactly 11 legal moves, and a stalemate (no legal
\* move).
TestPositions ==
    {STARTING_FEN,
     "rnbqkbnr/pppppppp/8/8/4P3/8/PPPP1PPP/RNBQKBNR b KQkq - 0 1",
     "8/4P3/8/8/8/8/k7/4K3 w - - 0 1",
     "r3k2r/pppppppp/8/8/8/8/PPPPPPPP/R3K2R w KQkq - 0 1",
     "rnbqkbnr/ppp1p1pp/8/3pPp2/8/8/PPPP1PPP/RNBQKBNR w KQkq f6 0 3",
     "4k3/8/8/8/8/8/4r3/4K3 w - - 0 1",
     "4k3/8/8/8/4K3/8/7P/8 w - - 0 1",
     "4k3/8/8/8/4K3/6P1/7P/8 w - - 0 1",
     "7k/5Q2/6K1/8/8/8/8/8 b - - 0 1"}

\* Batches of 1..MaxBatch calls: either move tool with a move that is legal
\* at the start, one that is legal after it and one that is legal in
\* neither position, or a request for the best move; run from no position
\* (None), from the start and from the position after e2e4.
BatchCalls ==
    [name : {"tool_register_user_move", "tool_make_move"}, args : {"e2e4", "e7e5", "e2e5"}]
    \cup {[name |-> "tool_get_best_move", args |-> STARTING_FEN]}
Batches == UNION {[1..n -> BatchCalls] : n \in 1..MaxBatch}
BatchPositions ==
    {None, STARTING_FEN, "rnbqkbnr/pppppppp/8/8/4P3/8/PPPP1PPP/RNBQKBNR b KQkq - 0 1"}

Calls ==
    [fn : {"validate_move"}, tool : {""}, move : TestMoves, position : TestPositions]
    \cup [fn : {"tools_node"}, tool : MoveTools, move : TestMoves, position : TestPositions]
    \cup [fn : {"tools_node_batch"}, tool : {""}, move : {"e2e4"}, position : BatchPositions,
          batch : Batches]

\* The assistant message that carries a batch of calls.
BatchMessage(batch) ==
    AIMessage("", [i \in 1..Len(batch) |-> ToolCall(batch[i].name, batch[i].args, i)])

\* The state a direct call of tools_node is given: the assistant's last
\* message carries the one tool call.
CallInit ==
    /\ call \in Calls
    /\ messages = IF call.fn = "tools_node"
                  THEN <<SystemMessage("system_prompt"), HumanMessage("user input"),
                         AIMessage("", <<ToolCall(call.tool, call.move, 1)>>)>>
                  ELSE IF call.fn = "tools_node_batch"
                  THEN <<SystemMessage("system_prompt"), HumanMessage("user input"),
                         BatchMessage(call.batch)>>
                  ELSE <<SystemMessage("system_prompt")>>
    /\ current_position = call.position
    /\ pc = "call"
    /\ response = NoMessage
    /\ assistant_message = ""
    /\ ret = NoReturn
    /\ request = NoRequest

CallValidateMove ==
    /\ pc = "call"
    /\ call.fn = "validate_move"
    /\ ret' = validate_move(call.move, call.position)
    /\ pc' = "returned"
    /\ UNCHANGED <<messages, current_position, response, assistant_message, call, request>>

CallToolsNode ==
    /\ pc = "call"
    /\ call.fn = "tools_node"
    /\ ret' = tools_node(State, <<NoReply>>, TRUE)
    /\ pc' = "returned"
    /\ UNCHANGED <<messages, current_position, response, assistant_message, call, request>>

\* tools_node on a batch, for every answer of the analysis service to its
\* tool_get_best_move calls.
CallToolsNodeBatch ==
    /\ pc = "call"
    /\ call.fn = "tools_node_batch"
    /\ \E replies \in BatchReplies(call.batch) :
          ret' = tools_node(State, replies, TRUE)
    /\ pc' = "returned"
    /\ UNCHANGED <<messages, current_position, response, assistant_message, call, request>>

CallNext ==
    \/ CallValidateMove
    \/ CallToolsNode
    \/ CallToolsNodeBatch

CallSpec == CallInit /\ [][CallNext]_vars

(***************************************************************************)
(* Direct calls of the helpers of agent/chess_api.py.  A call is drawn     *)
(* with its arguments and, for the helpers that ask the analysis service,  *)
(* with what the one POST they make comes to.                              *)
(***************************************************************************)
\* The mate field as the service may send it: absent, null, integers, a
\* number that is no integer, and strings (numeric, padded, not numeric).
MateValues ==
    {Absent, PyNone, PyInt(3), PyInt(-2), PyFloat("2.5"),
     PyStr("3"), PyStr("-2"), PyStr(" 4 "), PyStr("2.5"), PyStr("mate"), PyStr("")}

\* A 200 response with a result (with and without a move, with a move that
\* is no legal move), a 200 response reporting an error, other statuses,
\* and each exception of the HTTP client.
AnalysisReplies ==
    ServiceReplies
    \cup { Reply("", 200, "move", "e2e4", Absent),
           Reply("", 200, "bestmove", "e2e5", Absent),
           Reply("", 200, "error", "<absent>", Absent),
           Reply("", 404, "", "<absent>", Absent),
           Reply("ClientError", 0, "", "<absent>", Absent),
           Reply("TimeoutError", 0, "", "<absent>", Absent),
           Reply("ContentTypeError", 200, "", "<absent>", Absent),
           Reply("JSONDecodeError", 200, "", "<absent>", Absent),
           Reply("JSONDecodeError", 500, "", "<absent>", Absent),
           Reply("UnicodeDecodeError", 200, "", "<absent>", Absent) }

MateReplies == {Reply("", 200, "bestmove", "e2e4", m) : m \in MateValues}

UpdateFenCalls == [fn : {"update_fen"}, fen : TestPositions, move : TestMoves]

\* Each numeric argument at, and just outside, both ends of its range.
AnalyzePositionCalls ==
    [fn : {"analyze_position"},
     fen : {None, "", STARTING_FEN},
     input_text : {None, "1. e4 e5"},
     variants : {0, 1, 5, 6},
     depth : {0, 1, 18, 19},
     max_thinking_time : {0, 1, 100, 101},
     searchmoves : {"", "e2e4 d2d4"},
     reply : AnalysisReplies]

GetBestMoveCalls == [fn : {"get_best_move"}, fen : TestPositions, reply : AnalysisReplies]

CheckForMateCalls ==
    [fn : {"check_for_mate"}, fen : {STARTING_FEN}, reply : AnalysisReplies \cup MateReplies]

\* Games of up to MaxMoves moves from the starting position in which every
\* move is accepted, each to be replayed twice by calls of update_fen.
ReplayMoves == {"e2e4", "g1f3", "e7e5", "d7d5", "b8c6"}

RECURSIVE Replayed(_, _)
Replayed(moves, k) ==
    IF k = 0 THEN STARTING_FEN
    ELSE Fen(Push(Board(Replayed(moves, k - 1)), from_uci(moves[k])))

RECURSIVE AllAccepted(_, _)
AllAccepted(moves, k) ==
    \/ k = 0
    \/ /\ AllAccepted(moves, k - 1)
       /\ validate_move(moves[k], Replayed(moves, k - 1)).value[1]

ReplayCalls ==
    {[fn |-> "replay", moves |-> moves] :
        moves \in {ms \in UNION {[1..n -> ReplayMoves] : n \in 1..MaxMoves} :
                      AllAccepted(ms, Len(ms))}}

\* Characters put into a placement: the piece letters, the digits 0 to 9,
\* the separators, letters and signs that mean nothing there, and two
\* digits from outside ASCII.
FenChars ==
    WhitePieces \cup BlackPieces \cup {DigitStr(d) : d \in 0..9}
    \cup {"/", " ", "\t", "-", ".", "x", "w", "U+0668", "U+00B2"}

\* Strings given to decode_fen: full positions, the empty and the blank
\* string, placements alone (padded, with too few and too many ranks, with
\* ranks of 7 and 9 squares, with two digits side by side, followed by a
\* tab), and placements
\* with each character of FenChars as a whole rank, between two digits,
\* and within the last rank.
DecodeFenInputs ==
    {Str(position) : position \in TestPositions}
    \cup {Str(""), Str("   "),
          Str("8/8/8/8/8/8/8/8"),
          Str("  8/8/8/8/8/8/8/8  "),
          Str("rnbqkbnr/pppppppp/8/8/8/8/PPPPPPPP"),
          Str("rnbqkbnr/pppppppp/8/8/8/8/PPPPPPPP/RNBQKBNR/"),
          Str("rnbqkbnr/pppppppp/8/8/8/8/PPPPPPPP/RNBQKBNRR w KQkq - 0 1"),
          Str("rnbqkbnr/pppppppp/7/8/8/8/PPPPPPPP/RNBQKBNR w KQkq - 0 1"),
          Str("rnbqkbnr/pppppppp/44/8/8/8/PPPPPPPP/RNBQKBNR w KQkq - 0 1")}
    \cup {Str("8/8/8/8/8/8/8/8") \o <<"\t">> \o Str("w - - 0 1")}
    \cup {<<c>> \o Str("/8/8/8/8/8/8/8") : c \in FenChars}
    \cup {Str("3") \o <<c>> \o Str("4/8/8/8/8/8/8/PPPPPPPP w - - 0 1") : c \in FenChars}
    \cup {Str("8/8/8/8/8/8/8/4") \o <<c>> \o Str("3") : c \in FenChars}

DecodeFenCalls == [fn : {"decode_fen"}, fen : DecodeFenInputs]

ApiCalls ==
    UpdateFenCalls \cup AnalyzePositionCalls \cup GetBestMoveCalls \cup CheckForMateCalls
    \cup ReplayCalls \cup DecodeFenCalls

ApiInit ==
    /\ call \in ApiCalls
    /\ messages = <<SystemMessage("system_prompt")>>
    /\ current_position = None
    /\ pc = "call"
    /\ response = NoMessage
    /\ assistant_message = ""
    /\ ret = IF call.fn = "replay" THEN Return(<<<<>>, <<>>>>) ELSE NoReturn
    /\ request = NoRequest

\* The request a call of analyze_position has posted when its checks passed.
Posted(checked) == IF checked.raised = "" THEN [sent |-> TRUE, json |-> checked.value] ELSE NoRequest

CallUpdateFen ==
    /\ pc = "call"
    /\ call.fn = "update_fen"
    /\ ret' = update_fen(call.fen, call.move)
    /\ pc' = "returned"
    /\ UNCHANGED <<messages, current_position, response, assistant_message, call, request>>

CallAnalyzePosition ==
    /\ pc = "call"
    /\ call.fn = "analyze_position"
    /\ request' = Posted(analyze_position_request(call.fen, call.input_text, call.variants,
                             call.depth, call.max_thinking_time, call.searchmoves))
    /\ ret' = analyze_position(call.fen, call.input_text, call.variants, call.depth,
                               call.max_thinking_time, call.searchmoves, call.reply)
    /\ pc' = "returned"
    /\ UNCHANGED <<messages, current_position, response, assistant_message, call>>

CallGetBestMove ==
    /\ pc = "call"
    /\ call.fn = "get_best_move"
    /\ request' = Posted(analyze_position_request(call.fen, None, 1, 12, 50, ""))
    /\ ret' = get_best_move(call.fen, call.reply)
    /\ pc' = "returned"
    /\ UNCHANGED <<messages, current_position, response, assistant_message, call>>

CallCheckForMate ==
    /\ pc = "call"
    /\ call.fn = "check_for_mate"
    /\ request' = Posted(analyze_position_request(call.fen, None, 1, 12, 50, ""))
    /\ ret' = check_for_mate(call.fen, call.reply)
    /\ pc' = "returned"
    /\ UNCHANGED <<messages, current_position, response, assistant_message, call>>

CallDecodeFen ==
    /\ pc = "call"
    /\ call.fn = "decode_fen"
    /\ ret' = decode_fen(call.fen)
    /\ pc' = "returned"
    /\ UNCHANGED <<messages, current_position, response, assistant_message, call, request>>

\* One more call of update_fen in replay i of the game: the next move is
\* applied to the position the replay's last call returned (the starting
\* position for the first move); ret holds what the calls of both replays
\* returned so far.  A replay ends with the game or with an exception.
CallReplay(i) ==
    /\ pc = "call"
    /\ call.fn = "replay"
    /\ Len(ret.value[i]) < Len(call.moves)
    /\ ret.value[i] # <<>> => ret.value[i][Len(ret.value[i])].raised = ""
    /\ ret' = Return([ret.value EXCEPT ![i] =
                 Append(@, update_fen(IF @ = <<>> THEN STARTING_FEN ELSE @[Len(@)].value,
                                      call.moves[Len(@) + 1]))])
    /\ UNCHANGED <<messages, current_position, pc, response, assistant_message, call, request>>

CallReplayFirst == CallReplay(1)
CallReplaySecond == CallReplay(2)

ApiNext ==
    \/ CallUpdateFen
    \/ CallAnalyzePosition
    \/ CallGetBestMove
    \/ CallCheckForMate
    \/ CallDecodeFen
    \/ CallReplayFirst
    \/ CallReplaySecond

ApiSpec == ApiInit /\ [][ApiNext]_vars

(***************************************************************************)
(* The conversation when every awaited call comes back: a reasoning step   *)
(* runs once it is reached, a dispatch cycle returns or raises, and main   *)
(* prints the reply.  Nothing makes the user type another message.         *)
(***************************************************************************)
\* llm_with_tools.ainvoke comes back: the reasoning step returns or raises.
AgentReturns == (pc = "agent") ~> (pc # "agent")
\* tool_executor.ainvoke comes back: the dispatch cycle returns or raises.
ToolsReturn == (pc = "tools") ~> (pc # "tools")
LiveSpec == Spec /\ WF_vars(MainPrint) /\ AgentReturns /\ ToolsReturn

(***************************************************************************)
(* Properties.  A dispatch cycle is one step of ToolsNode: the batch it     *)
(* runs is the tool calls of the last message before the step, its answers *)
(* are the messages the step appends.                                      *)
(***************************************************************************)
StartsWith(s, prefix) == Len(s) >= Len(prefix) /\ SubSeq(s, 1, Len(prefix)) = prefix

Batch == Last(messages).tool_calls
DispatchCycle == pc = "tools" /\ pc' = "agent"
Answers == SubSeq(messages', Len(messages') - Len(Batch) + 1, Len(messages'))

IsMoveCall(c) == c.name = "tool_register_user_move" \/ c.name = "tool_make_move"

\* The position P with update_fen applied, in request order, for the
\* move-tool calls among the first k that validate_move accepted.
RECURSIVE WorkingPosition(_, _, _)
WorkingPosition(calls, k, P) ==
    IF k = 0 THEN P
    ELSE IF IsMoveCall(calls[k])
            /\ validate_move(calls[k].args, WorkingPosition(calls, k - 1, P)).value[1]
    THEN update_fen(WorkingPosition(calls, k - 1, P), calls[k].args).value
    ELSE WorkingPosition(calls, k - 1, P)

\* What validate_move returns for call k, asked in the working position
\* the calls before it produced.
Verdict(calls, k, P) == validate_move(calls[k].args, WorkingPosition(calls, k - 1, P)).value

IsRejected(calls, k, P) == IsMoveCall(calls[k]) /\ ~Verdict(calls, k, P)[1]

AfterE2E4 == "rnbqkbnr/pppppppp/8/8/4P3/8/PPPP1PPP/RNBQKBNR b KQkq - 0 1"
AfterE2E4E7E5 == "rnbqkbnr/pppp1ppp/8/4p3/4P3/8/PPPP1PPP/RNBQKBNR w KQkq - 0 2"

\* C1: a dispatch cycle that starts from a position P (not None) and whose
\* batch holds at least one rejected move-tool call returns P with update_fen
\* applied for exactly the accepted move-tool calls, in request order;
\* rejected calls and tool_get_best_move calls contribute nothing.
C1_RejectedCallsContributeNothing ==
    [][(/\ DispatchCycle
        /\ current_position # None
        /\ \E k \in 1..Len(Batch) : IsRejected(Batch, k, current_position))
       => current_position' = WorkingPosition(Batch, Len(Batch), current_position)]_vars

\* A cycle whose first call (e2e5) was rejected and whose second (e2e4) was
\* accepted has run.
C1_Witness ==
    /\ pc = "agent"
    /\ Len(messages) = 4
    /\ StartsWith(messages[3].content, "ERROR: Illegal move 'e2e5'")
    /\ messages[4].content = "e2e4"
    /\ current_position = AfterE2E4

\* The legal-move set of a position, as list(board.legal_moves) gives it.
IsMember(m, ms) == \E i \in 1..Len(ms) : SameMove(ms[i], m) /\ m.special = ""

\* `move in board.legal_moves` read off list(board.legal_moves): the move is
\* listed, or it is the king's move from its home square onto the rook in
\* the corner of its rank and the castling move to that side is listed.
AsListed(b, m) ==
    IF b.board[m.from] \in {"K", "k"} /\ m.from \in {4, 60} /\ m.promotion = ""
       /\ m.to \in {m.from + 3, m.from - 4}
    THEN Move(m.from, IF m.to > m.from THEN m.from + 2 ELSE m.from - 2, "")
    ELSE m
InLegalMoves(m, b) == m.special = "" /\ IsMember(AsListed(b, m), LegalMoves(b))

\* C2: for a position that is a valid FEN, validate_move returns (True, move)
\* if and only if the move parses as a UCI move and is a member of the
\* position's legal-move set, and (False, text) otherwise; the call changes
\* neither its arguments nor current_position.
C2_AcceptedIffLegal ==
    [][(pc = "call" /\ call.fn = "validate_move" /\ pc' = "returned"
        /\ Board(call.position).ok)
       => /\ ret'.raised = ""
          /\ IF from_uci(call.move).ok
                /\ InLegalMoves(from_uci(call.move), Board(call.position))
             THEN ret'.value = <<TRUE, call.move>>
             ELSE ret'.value[1] = FALSE /\ StartsWith(ret'.value[2], "ERROR: ")
          /\ call' = call
          /\ current_position' = current_position]_vars

\* validate_move has accepted an en passant capture.
C2_Witness ==
    /\ pc = "returned"
    /\ call.fn = "validate_move"
    /\ call.move = "e5f6"
    /\ ret = Return(<<TRUE, "e5f6">>)

\* C3 as stated: every change of current_position applies exactly one
\* accepted move to the immediately preceding value.
C3_ExactlyOneMovePerChange ==
    [][current_position' # current_position
       => \E k \in 1..Len(Batch) :
             /\ IsMoveCall(Batch[k])
             /\ validate_move(Batch[k].args, current_position).value[1]
             /\ current_position' = update_fen(current_position, Batch[k].args).value]_vars

\* C3, amended: current_position starts as the canonical starting position
\* and only a dispatch cycle writes it; the value it writes is the preceding
\* value with the moves validate_move accepted in that cycle (one or more)
\* applied one after the other, in request order.
C3_OnlyAcceptedMovesChangePosition ==
    /\ current_position = STARTING_FEN
    /\ [][current_position' # current_position
          => /\ DispatchCycle
             /\ \E k \in 1..Len(Batch) : IsMoveCall(Batch[k]) /\ Verdict(Batch, k, current_position)[1]
             /\ current_position' = WorkingPosition(Batch, Len(Batch), current_position)]_vars

\* The second turn of a conversation has begun after a move was accepted in
\* the first.
C3_Witness ==
    /\ pc = "agent"
    /\ assistant_message = "answer"
    /\ Last(messages).type = "human"
    /\ current_position = AfterE2E4

\* C4 as stated: every invocation of the graph eventually reaches END,
\* unless a call raises.
C4_AlwaysReachesDone == (pc = "agent") ~> (pc \in {"done", "crashed"})

\* C4, amended: every reasoning step is followed by END unless the
\* provider's message requests tools (or a call raises): an invocation
\* reaches END once the provider returns a message without tool calls, and
\* nothing bounds the cycles before that.
C4_DoneUnlessToolsRequested ==
    (pc = "agent") ~> (\/ pc \in {"done", "crashed"}
                       \/ pc = "tools" /\ Len(response.tool_calls) > 0)

\* An invocation has reached END after a dispatch cycle that accepted two moves.
C4_Witness ==
    /\ pc = "done"
    /\ current_position = AfterE2E4E7E5

\* C5: whenever the graph has reached END, the last message of the history
\* is an assistant message with no tool calls, and it is the message the
\* latest reasoning step returned; the reply main prints is its content.
C5_DoneEndsWithAssistantAnswer ==
    /\ pc = "done" => /\ Last(messages).type = "ai"
                      /\ Len(Last(messages).tool_calls) = 0
                      /\ Last(messages) = response
    /\ (pc = "input" /\ response # NoMessage) => assistant_message = response.content

\* The graph has reached END for the first time, nothing printed yet.
C5_Witness ==
    /\ pc = "done"
    /\ assistant_message = ""
    /\ Last(messages) = AIMessage("answer", <<>>)

\* The tool messages after message j of the history that answer call c.
AnswersTo(j, c) ==
    {i \in (j + 1)..Len(messages) :
        messages[i].type = "tool" /\ messages[i].tool_call_id = c.id}

\* C6: when a reasoning step is about to run, every tool call of an
\* assistant message of the history is answered by exactly one tool message
\* with its identifier, after that message, and every tool message answers
\* one of those calls.
C6_EveryCallAnsweredOnce ==
    pc = "agent" =>
        \A j \in 1..Len(messages) :
            messages[j].type = "ai" =>
                /\ \A k \in 1..Len(messages[j].tool_calls) :
                      Cardinality(AnswersTo(j, messages[j].tool_calls[k])) = 1
                /\ \A i \in (j + 1)..Len(messages) :
                      /\ messages[i].type = "tool"
                      /\ \E k \in 1..Len(messages[j].tool_calls) :
                            messages[i].tool_call_id = messages[j].tool_calls[k].id
                /\ Len(messages) - j = Len(messages[j].tool_calls)

\* A batch of two calls has been answered, the second by a rejection.
C6_Witness ==
    /\ pc = "agent"
    /\ Len(messages) = 4
    /\ Len(messages[2].tool_calls) = 2
    /\ messages[3].tool_call_id = messages[2].tool_calls[1].id
    /\ messages[4].tool_call_id = messages[2].tool_calls[2].id
    /\ StartsWith(messages[4].content, "ERROR: Invalid move format 'Nf3'")

\* C7: a rejected move-tool call does not make tools_node raise: the cycle
\* completes, and the content of that call's tool message is the rejection
\* text of validate_move, not the proposed move, in the history the next
\* reasoning step sees.
C7_RejectionBecomesToolResult ==
    [][pc = "tools"
       => /\ pc' = "crashed" => \E k \in 1..Len(Batch) : ~IsMoveCall(Batch[k])
          /\ pc' = "agent" =>
                \A k \in 1..Len(Batch) :
                    IsRejected(Batch, k, current_position) =>
                        /\ Answers[k].type = "tool"
                        /\ Answers[k].tool_call_id = Batch[k].id
                        /\ Answers[k].content = Verdict(Batch, k, current_position)[2]
                        /\ Answers[k].content # Batch[k].args
                        /\ StartsWith(Answers[k].content, "ERROR: ")]_vars

\* A cycle of one rejected call (the illegal e2e5) has completed.
C7_Witness ==
    /\ pc = "agent"
    /\ Len(messages) = 3
    /\ messages[3].name = "tool_make_move"
    /\ StartsWith(messages[3].content, "ERROR: Illegal move 'e2e5' in position ")
    /\ current_position = STARTING_FEN

\* C8: for a move string that does not parse as <from><to>[promotion],
\* validate_move returns (False, error text) and does not raise, and the
\* dispatch cycle that holds the call completes with the position unchanged
\* and the error text as the call's result.
C8_MalformedMoveIsRejected ==
    (pc = "returned" /\ ~from_uci(call.move).ok) =>
        /\ ret.raised = ""
        /\ call.fn = "validate_move" =>
              /\ ret.value[1] = FALSE
              /\ StartsWith(ret.value[2], "ERROR: Invalid move format '" \o call.move \o "': ")
        /\ call.fn = "tools_node" =>
              /\ ret.value.current_position = call.position
              /\ Len(ret.value.messages) = 1
              /\ StartsWith(ret.value.messages[1].content,
                            "ERROR: Invalid move format '" \o call.move \o "': ")

\* A dispatch cycle on a move written in SAN has returned.
C8_Witness ==
    /\ pc = "returned"
    /\ call.fn = "tools_node"
    /\ call.move = "Nf3"
    /\ ret.raised = ""
    /\ ret.value.current_position = call.position

\* C9: within one batch the k-th move-tool call is validated against the
\* working position the accepted calls before it produced: its message keeps
\* the move when validate_move accepts it there and carries validate_move's
\* rejection for that position otherwise, and the position returned is the
\* one all the accepted calls produce in order.
C9_BatchComposesSequentially ==
    [][DispatchCycle
       => /\ \A k \in 1..Len(Batch) :
                IsMoveCall(Batch[k]) =>
                    Answers[k].content = IF Verdict(Batch, k, current_position)[1]
                                         THEN Batch[k].args
                                         ELSE Verdict(Batch, k, current_position)[2]
          /\ current_position' = WorkingPosition(Batch, Len(Batch), current_position)]_vars

\* A batch of e2e4 and e7e5 run from the start: both accepted, the second
\* legal only after the first.
C9_Witness ==
    /\ pc = "agent"
    /\ Len(messages) = 4
    /\ messages[3].content = "e2e4"
    /\ messages[4].content = "e7e5"
    /\ current_position = AfterE2E4E7E5

\* C10: a dispatch cycle whose batch holds only tool_get_best_move calls
\* returns the current_position it started with, whatever the analysis
\* service answered.
C10_BestMoveLeavesPosition ==
    [][(DispatchCycle /\ \A k \in 1..Len(Batch) : Batch[k].name = "tool_get_best_move")
       => current_position' = current_position]_vars

\* tool_get_best_move has answered e7e5, a move legal in the position, and
\* the position is the one before it.
C10_Witness ==
    /\ pc = "agent"
    /\ Len(messages) = 3
    /\ messages[3].name = "tool_get_best_move"
    /\ messages[3].content = "e7e5"
    /\ current_position = AfterE2E4

\* C11: the tool messages a dispatch cycle returns answer the tool calls of
\* the assistant message one for one and in the order of the calls (the
\* k-th message carries the name and the identifier of the k-th call), and
\* the position returned is the one the accepted moves produce when applied
\* in that same order.
C11_ResultsInRequestOrder ==
    [][DispatchCycle
       => /\ Len(messages') >= Len(Batch)
          /\ \A k \in 1..Len(Batch) :
                /\ Answers[k].type = "tool"
                /\ Answers[k].tool_call_id = Batch[k].id
                /\ Answers[k].name = Batch[k].name
          /\ current_position' = WorkingPosition(Batch, Len(Batch), current_position)]_vars

\* A batch of e7e5 and e2e4 run from the start: the first is answered by a
\* rejection and the second is applied, which only this order produces.
C11_Witness ==
    /\ pc = "agent"
    /\ Len(messages) = 4
    /\ messages[2].type = "ai"
    /\ Len(messages[2].tool_calls) = 2
    /\ messages[2].tool_calls[1].args = "e7e5"
    /\ messages[2].tool_calls[2].args = "e2e4"
    /\ messages[3].tool_call_id = messages[2].tool_calls[1].id
    /\ StartsWith(messages[3].content, "ERROR: Illegal move")
    /\ messages[4].tool_call_id = messages[2].tool_calls[2].id
    /\ messages[4].content = "e2e4"
    /\ current_position = AfterE2E4

\* C12: for a valid position, update_fen raises and returns no position
\* whenever the move does not parse as a UCI move or is not in the position's
\* legal-move set, the two errors being told apart by their text ("Invalid
\* move format: ..." for the first, "Illegal move: ..." for the second); it
\* returns a position, the one the move leads to, only for a legal move.
C12_UpdateFenFailsUnlessLegal ==
    (pc = "returned" /\ call.fn = "update_fen" /\ Board(call.fen).ok) =>
        /\ ~from_uci(call.move).ok =>
              /\ ret.raised = "ValueError"
              /\ StartsWith(ret.value, "Invalid move format: ")
              /\ ~StartsWith(ret.value, "Illegal move: ")
        /\ (from_uci(call.move).ok
            /\ ~InLegalMoves(from_uci(call.move), Board(call.fen))) =>
              /\ ret.raised = "ValueError"
              /\ StartsWith(ret.value, "Illegal move: ")
              /\ ~StartsWith(ret.value, "Invalid move format: ")
        /\ ret.raised = "" =>
              /\ from_uci(call.move).ok
              /\ InLegalMoves(from_uci(call.move), Board(call.fen))
              /\ Board(ret.value).ok
              /\ ret.value = Fen(Push(Board(call.fen), from_uci(call.move)))
              /\ ret.value # call.fen

\* update_fen has refused a move that parses and is illegal, and a move
\* that does not parse is refused in other words.
C12_Witness ==
    /\ pc = "returned"
    /\ call.fn = "update_fen"
    /\ call.fen = STARTING_FEN
    /\ call.move = "e2e5"
    /\ ret = Raise("ValueError", "Illegal move: e2e5 in position " \o STARTING_FEN)
    /\ update_fen(STARTING_FEN, "Nf3").raised = "ValueError"
    /\ StartsWith(update_fen(STARTING_FEN, "Nf3").value, "Invalid move format: ")

\* C13: a failure of the analysis service during tool_get_best_move ends
\* the invocation: no dispatch cycle returns a tool message that reports
\* the failure, so that no reasoning step runs after it.
C13_ServiceFailureEndsInvocation ==
    [][DispatchCycle
       => \A k \in 1..Len(Batch) :
             Batch[k].name = "tool_get_best_move"
                => ~StartsWith(Answers[k].content, "Error: ChessAPIError")]_vars

\* C14: whenever get_best_move returns without raising, what it returns is
\* a non-empty string that parses as a UCI move and is in the legal-move
\* set of the position it was asked about.
C14_BestMoveIsLegalMove ==
    (pc = "returned" /\ call.fn = "get_best_move" /\ ret.raised = "") =>
        /\ ret.value # ""
        /\ from_uci(ret.value).ok
        /\ InLegalMoves(from_uci(ret.value), Board(call.fen))

InRange(c) ==
    /\ c.variants >= 1 /\ c.variants <= 5
    /\ c.depth >= 1 /\ c.depth <= 18
    /\ c.max_thinking_time >= 1 /\ c.max_thinking_time <= 100

\* C15: analyze_position posts a request only when variants is in 1..5,
\* depth in 1..18 and max_thinking_time in 1..100, and then the request
\* carries these three values; with any of them outside its range the call
\* raises ValueError and nothing has been posted.
C15_RangesCheckedBeforeRequest ==
    (pc = "returned" /\ call.fn = "analyze_position") =>
        /\ request.sent =>
              /\ InRange(call)
              /\ request.json.variants = call.variants
              /\ request.json.depth = call.depth
              /\ request.json.maxThinkingTime = call.max_thinking_time
        /\ ~InRange(call) => (ret.raised = "ValueError" /\ ~request.sent)
        /\ (InRange(call) /\ ~(Falsy(call.fen) /\ Falsy(call.input_text))) => request.sent

\* A call with depth 19, all else in order, has raised ValueError and
\* posted nothing.
C15_Witness ==
    /\ pc = "returned"
    /\ call.fn = "analyze_position"
    /\ call.fen = STARTING_FEN
    /\ call.variants = 5
    /\ call.depth = 19
    /\ call.max_thinking_time = 100
    /\ ret = Raise("ValueError", "depth must be between 1 and 18")
    /\ ~request.sent

\* C16: every request analyze_position posts carries exactly one of the
\* keys fen and input; a call that gives neither raises ValueError, and so
\* does a call that gives both, with nothing posted.
C16_ExactlyOneOfFenAndInput ==
    (pc = "returned" /\ call.fn = "analyze_position") =>
        /\ request.sent => (("fen" \in DOMAIN request.json) # ("input" \in DOMAIN request.json))
        /\ (Falsy(call.fen) = Falsy(call.input_text)) => (ret.raised = "ValueError" /\ ~request.sent)

\* The POST was answered by a 200 response whose body is a JSON value that
\* does not have type "error".
IsResult(reply) == reply.failure = "" /\ reply.status = 200 /\ reply.type # "error"

\* C17: a call of analyze_position that has posted its request returns a
\* result only for a 200 response whose body does not have type "error";
\* for a non-200 status, a body with type "error", a transport error and a
\* body that cannot be decoded it raises ChessAPIError.
C17_FailuresRaiseChessAPIError ==
    (pc = "returned" /\ call.fn = "analyze_position" /\ request.sent) =>
        IF IsResult(call.reply)
        THEN ret = Return(call.reply)
        ELSE ret.raised = "ChessAPIError"

\* C18: whatever the mate field of the response is (absent, null, an
\* integer, a number that is no integer, a numeric string, any other
\* string), check_for_mate returns None or an integer.
C18_MateIsNoneOrInteger ==
    (pc = "returned" /\ call.fn = "check_for_mate" /\ ret.raised = "") =>
        ret.value.t \in {"NoneType", "int"}

PlacementRanks(fen) == split_on(split_ws(fen)[1], "/")

\* What a rank of the placement describes: a digit 1 to 8 stands for that
\* many empty squares and any other character for itself.
RECURSIVE Described(_)
Described(rank_str) ==
    IF rank_str = <<>> THEN <<>>
    ELSE (IF IndexOf(rank_str[1], "12345678") > 0
          THEN [k \in 1..IndexOf(rank_str[1], "12345678") |-> None]
          ELSE <<rank_str[1]>>)
         \o Described(Tail(rank_str))

\* The string is one for which decode_fen is to raise: it is empty or
\* blank, its placement has other than 8 ranks, one of its ranks does not
\* come to 8 squares, or the placement holds a character that is neither a
\* piece letter nor one of the digits 1 to 8.
MustRaise(fen) ==
    \/ split_ws(fen) = <<>>
    \/ Len(PlacementRanks(fen)) # 8
    \/ \E r \in 1..Len(PlacementRanks(fen)) :
          \/ Len(Described(PlacementRanks(fen)[r])) # 8
          \/ \E i \in 1..Len(PlacementRanks(fen)[r]) :
                /\ ~IsPieceChar(PlacementRanks(fen)[r][i])
                /\ IndexOf(PlacementRanks(fen)[r][i], "12345678") = 0

\* C20: for every string, decode_fen either raises ValueError or returns a
\* board of 8 ranks of 8 squares, each None or a piece letter, rank 8 first
\* and file a first, as the placement field describes; it raises for an
\* empty string, for a placement with other than 8 ranks, for a rank that
\* does not come to 8 squares and for any character that is neither a piece
\* letter nor a digit.
C20_DecodeFenBoardOrValueError ==
    (pc = "returned" /\ call.fn = "decode_fen") =>
        /\ ret.raised \in {"", "ValueError"}
        /\ ret.raised = "" =>
              /\ Len(ret.value) = 8
              /\ \A r \in 1..8 :
                    /\ Len(ret.value[r]) = 8
                    /\ \A f \in 1..8 : ret.value[r][f] = None \/ IsPieceChar(ret.value[r][f])
                    /\ ret.value[r] = Described(PlacementRanks(call.fen)[r])
        /\ MustRaise(call.fen) => ret.raised = "ValueError"

\* The piece letter, or None, that the placement field of a position string
\* shows on a square, and the position's side to move.
PieceOn(fen, sq) == Described(PlacementRanks(Str(fen))[8 - Rank(sq)])[File(sq) + 1]
SideToMove(fen) == Split(fen, " ")[2]

\* C21: for every position and every move update_fen accepts in it, the
\* position returned has the other side to move, the move's source square
\* empty and its destination square occupied by the piece that moved, or by
\* the promotion piece the move names; from the starting position e2e4
\* gives rnbqkbnr/pppppppp/8/8/4P3/8/PPPP1PPP/RNBQKBNR b KQkq - 0 1.
C21_MoveIsCarriedOut ==
    (pc = "returned" /\ call.fn = "update_fen" /\ ret.raised = "") =>
        /\ SideToMove(call.fen) \in {"w", "b"}
        /\ SideToMove(ret.value) = Other(SideToMove(call.fen))
        /\ PieceOn(ret.value, from_uci(call.move).from) = None
        /\ PieceOn(ret.value, from_uci(call.move).to) =
              IF from_uci(call.move).promotion # ""
              THEN PieceOf(from_uci(call.move).promotion, SideToMove(call.fen))
              ELSE PieceOn(call.fen, from_uci(call.move).from)
        /\ (call.fen = STARTING_FEN /\ call.move = "e2e4") =>
              ret.value = "rnbqkbnr/pppppppp/8/8/4P3/8/PPPP1PPP/RNBQKBNR b KQkq - 0 1"

(***************************************************************************)
(* One dispatch cycle, tool call by tool call.  tool_executor.ainvoke runs *)
(* the calls of the batch as tasks gathered on one event loop: a task runs *)
(* until it waits or returns, and the next one starts meanwhile.  The move *)
(* tools return at once; tool_get_best_move waits for the analysis         *)
(* service.  tools_node goes on when every task has returned.              *)
(***************************************************************************)
\* The positions a dispatch cycle starts from: the one the provider was
\* shown, and the one after e2e4.
GatherPositions ==
    {STARTING_FEN, "rnbqkbnr/pppppppp/8/8/4P3/8/PPPP1PPP/RNBQKBNR b KQkq - 0 1"}

\* A variant of tool_get_best_move_request that asks about the tracked
\* position.
tool_get_best_move_tracked(state, tool_call) ==
    analyze_position_request(state.current_position, None, 1, 12, 50, "")

\* tool_get_best_move up to its request: api_get_best_move(fen=fen) checks
\* its arguments and posts the payload.
tool_get_best_move_request(state, tool_call) ==
    analyze_position_request(tool_call.args, None, 1, 12, 50, "")

\* The requests posted so far, each with the task that posted it.
Posts == IF request.sent THEN request.posts ELSE <<>>

GatherInit ==
    /\ \E answer \in ProviderResponses([messages |-> <<SystemMessage("system_prompt"),
                                                       HumanMessage("user input")>>,
                                        current_position |-> STARTING_FEN]) :
          /\ answer.tool_calls # <<>>
          /\ response = answer
          /\ messages = <<SystemMessage("system_prompt"), HumanMessage("user input"), answer>>
          /\ call = [fn |-> "tool_executor.ainvoke",
                     tasks |-> [i \in 1..Len(answer.tool_calls) |-> "pending"],
                     replies |-> [i \in 1..Len(answer.tool_calls) |-> NoReply]]
    /\ current_position \in GatherPositions
    /\ pc = "tools"
    /\ assistant_message = ""
    /\ ret = NoReturn
    /\ request = NoRequest

\* The tasks that have started and not returned.
InProgress == {i \in 1..Len(call.tasks) : call.tasks[i] = "awaiting"}

\* The event loop starts the next task: a move tool returns without
\* waiting, tool_get_best_move posts its request and waits (or raises
\* before posting when its arguments are refused).
TaskStarts ==
    /\ pc = "tools"
    /\ \E i \in 1..Len(call.tasks) :
          /\ call.tasks[i] = "pending"
          /\ \A j \in 1..(i - 1) : call.tasks[j] # "pending"
          /\ IF Batch[i].name = "tool_get_best_move"
                /\ tool_get_best_move_request(State, Batch[i]).raised = ""
             THEN /\ call' = [call EXCEPT !.tasks[i] = "awaiting"]
                  /\ request' = [sent |-> TRUE,
                                 posts |-> Append(Posts,
                                     [task |-> i,
                                      json |-> tool_get_best_move_request(State, Batch[i]).value])]
             ELSE /\ call' = [call EXCEPT !.tasks[i] = "done"]
                  /\ UNCHANGED request
    /\ UNCHANGED <<messages, current_position, pc, response, assistant_message, ret>>

\* The analysis service answers a waiting task, which returns or raises.
TaskResumes ==
    /\ pc = "tools"
    /\ \E i \in InProgress, reply \in ServiceReplies :
          call' = [call EXCEPT !.tasks[i] = "done", !.replies[i] = reply]
    /\ UNCHANGED <<messages, current_position, pc, response, assistant_message, ret, request>>

\* Every task has returned: tools_node validates the move-tool messages and
\* returns, then the edge tools -> agent.
GatherReturns ==
    /\ pc = "tools"
    /\ \A i \in 1..Len(call.tasks) : call.tasks[i] = "done"
    /\ ret' = tools_node(State, call.replies, TRUE)
    /\ ret'.raised = ""
    /\ messages' = add_messages(messages, ret'.value.messages)
    /\ current_position' = ret'.value.current_position
    /\ pc' = "agent"
    /\ UNCHANGED <<response, assistant_message, call, request>>

\* A task raised and the ToolNode does not handle it: tools_node raises.
GatherRaises ==
    /\ pc = "tools"
    /\ \E i \in 1..Len(call.tasks) :
          /\ call.tasks[i] = "done"
          /\ RunTool(Batch[i], call.replies[i]).raised # ""
          /\ ret' = RunTool(Batch[i], call.replies[i])
    /\ pc' = "crashed"
    /\ UNCHANGED <<messages, current_position, response, assistant_message, call, request>>

GatherNext ==
    \/ TaskStarts
    \/ TaskResumes
    \/ GatherReturns
    \/ GatherRaises

GatherSpec == GatherInit /\ [][GatherNext]_vars

\* C22: within one conversation at every moment at most one tool call (or
\* one reasoning step) is in progress, and the conversation state is
\* written only when none is: no two tool calls run concurrently.
C22_OneToolCallInProgress ==
    /\ [](pc = "tools" => Cardinality(InProgress) <= 1)
    /\ [][(messages' # messages \/ current_position' # current_position)
             => InProgress = {}]_vars

\* A reasoning step that returned: one step of AgentNode.
ReasoningStep == pc = "agent" /\ pc' \in {"tools", "done"}

\* C23: after a reasoning step the graph goes to the tools node if and only
\* if the message the step returned carries at least one tool call, and to
\* END if and only if it carries none; the route is the one should_continue
\* gives for the last message of the history alone.
C23_RouteFollowsToolCalls ==
    [][ReasoningStep =>
          /\ Last(messages') = response'
          /\ pc' = "tools" <=> Len(response'.tool_calls) >= 1
          /\ pc' = "done" <=> Len(response'.tool_calls) = 0
          /\ pc' = conditional_edges(should_continue([messages |-> <<Last(messages')>>,
                                                      current_position |-> None]))]_vars

C23_Witness ==
    /\ pc = "tools"
    /\ response = Last(messages)
    /\ Len(response.tool_calls) = MaxBatch
    /\ current_position = AfterE2E4

\* The context the reasoning step builds in the state a step leads to.
NextContext == agent_context([messages |-> messages', current_position |-> current_position'])

\* C24: a dispatch cycle that returns leads to the agent node, never to END;
\* the history that reasoning step starts from is the previous history with
\* the batch's tool messages appended, and the context it builds holds
\* those messages and a notice of the position the batch produced.
C24_DispatchLeadsToReasoning ==
    [][(pc = "tools" /\ pc' \notin {"tools", "crashed"})
       => /\ pc' = "agent"
          /\ messages' = messages \o Answers
          /\ \A k \in 1..Len(Batch) :
                Answers[k].type = "tool" /\ Answers[k].tool_call_id = Batch[k].id
          /\ current_position' = WorkingPosition(Batch, Len(Batch), current_position)
          /\ SubSeq(NextContext, 1, Len(messages')) = messages'
          /\ Last(NextContext).content =
                "Current board position (FEN): {\"fen\": \"" \o current_position'
                \o "\"}\nUse this FEN when calling tool_get_best_move."]_vars

\* A reasoning step is about to run on the two answers of a batch that
\* advanced the position by two moves.
C24_Witness ==
    /\ pc = "agent"
    /\ Len(messages) = 4
    /\ messages[3].type = "tool" /\ messages[3].content = "e2e4"
    /\ messages[4].type = "tool" /\ messages[4].content = "e7e5"
    /\ current_position = AfterE2E4E7E5

(***************************************************************************)
(* One invocation of the graph with its whole history: nothing of it is    *)
(* left out, and the provider asks for tools in at most MaxCycles          *)
(* reasoning steps.  The context a reasoning step sent is kept in request. *)
(***************************************************************************)
MaxCycles == 2

\* A variant of agent_node that returns the notice with the response.
agent_node_with_notice(state, answer) ==
    [messages |-> <<Last(agent_context(state)), answer>>]

\* The update agent_node returns: the provider's response, nothing else.
agent_node(state, answer) == [messages |-> <<answer>>]

\* The reasoning steps of the history that asked for tools.
Cycles(h) == Cardinality({i \in 1..Len(h) : h[i].type = "ai" /\ h[i].tool_calls # <<>>})

\* graph.ainvoke(state) was called after main appended the user's message.
TurnInit ==
    /\ messages = <<SystemMessage("system_prompt"), HumanMessage("user input")>>
    /\ current_position = STARTING_FEN
    /\ pc = "agent"
    /\ response = NoMessage
    /\ assistant_message = ""
    /\ call = NoCall
    /\ ret = NoReturn
    /\ request = NoRequest

\* agent_node, its update merged into the state, then should_continue.
TurnAgentNode ==
    /\ pc = "agent"
    /\ \E answer \in ProviderResponses(State) :
          /\ Cycles(messages) >= MaxCycles => answer.tool_calls = <<>>
          /\ response' = answer
          /\ request' = [sent |-> TRUE, messages |-> agent_context(State)]
          /\ LET update == agent_node(State, answer) IN
             /\ messages' = add_messages(messages, update.messages)
             /\ current_position' = IF "current_position" \in DOMAIN update
                                    THEN update.current_position ELSE current_position
    /\ pc' = conditional_edges(should_continue([State EXCEPT !.messages = messages']))
    /\ UNCHANGED <<assistant_message, call, ret>>

\* The provider call raises.
TurnAgentRaise ==
    /\ pc = "agent"
    /\ request' = [sent |-> TRUE, messages |-> agent_context(State)]
    /\ pc' = "crashed"
    /\ UNCHANGED <<messages, current_position, response, assistant_message, call, ret>>

\* tools_node, its update merged into the state, then the edge to the agent.
TurnToolsNode ==
    /\ pc = "tools"
    /\ \E replies \in BatchReplies(Batch) :
          /\ ret' = tools_node(State, replies, TRUE)
          /\ ret'.raised = ""
          /\ messages' = add_messages(messages, ret'.value.messages)
          /\ current_position' = ret'.value.current_position
    /\ pc' = "agent"
    /\ UNCHANGED <<response, assistant_message, call, request>>

\* tools_node raises (a tool failed and the ToolNode does not handle it).
TurnToolsRaise ==
    /\ pc = "tools"
    /\ \E replies \in BatchReplies(Batch) :
          /\ ret' = tools_node(State, replies, FALSE)
          /\ ret'.raised # ""
    /\ pc' = "crashed"
    /\ UNCHANGED <<messages, current_position, response, assistant_message, call, request>>

TurnNext ==
    \/ TurnAgentNode
    \/ TurnAgentRaise
    \/ TurnToolsNode
    \/ TurnToolsRaise

TurnSpec == TurnInit /\ [][TurnNext]_vars

IsNotice(m) == m.type = "system" /\ StartsWith(m.content, "Current board position (FEN): ")

\* C25: a reasoning step changes the conversation state only by appending
\* one assistant message, the provider's response, to the history: the
\* messages already there stay as they were, current_position stays, and
\* the position notice sent to the provider is no message of the history.
C25_AgentNodeOnlyAppendsResponse ==
    [][ReasoningStep =>
          /\ Len(messages') = Len(messages) + 1
          /\ SubSeq(messages', 1, Len(messages)) = messages
          /\ Last(messages') = response' /\ response'.type = "ai"
          /\ current_position' = current_position
          /\ \E i \in 1..Len(request'.messages) : IsNotice(request'.messages[i])
          /\ \A i \in 1..Len(messages') : ~IsNotice(messages'[i])]_vars

\* The reasoning step after a dispatch cycle has returned its answer.
C25_Witness ==
    /\ pc = "done"
    /\ Len(messages) = 5
    /\ messages[4].type = "tool"
    /\ IsNotice(Last(request.messages))
    /\ current_position = AfterE2E4

\* C26: in the context a reasoning step sends to the provider, the notice
\* of the position is the message right after the system message, before
\* every human, assistant and tool message of the history, and it states
\* the current_position of the state at that step.
C26_NoticeFollowsSystemMessage ==
    [][pc = "agent" /\ request'.sent /\ request' # request
       => /\ request'.messages[1] = messages[1]
          /\ IsNotice(request'.messages[2])
          /\ request'.messages[2].content =
                "Current board position (FEN): {\"fen\": \"" \o current_position
                \o "\"}\nUse this FEN when calling tool_get_best_move."
          /\ \A i \in 1..Len(request'.messages) :
                request'.messages[i].type \in {"human", "ai", "tool"} => i > 2]_vars

\* The words of a rejection text after "Legal moves include: ", without the
\* commas that separate them.
RejectionHead(move, position) ==
    "ERROR: Illegal move '" \o move \o "' in position " \o position \o ". Legal moves include: "
ListedWords(text, head) ==
    SelectSeq(Split(SubSeq(text, Len(head) + 1, Len(text)), " "), LAMBDA w : w # "")
Listed(text, head) ==
    [i \in 1..Len(ListedWords(text, head)) |->
        LET w == ListedWords(text, head)[i]
        IN  IF CharAt(w, Len(w)) = "," THEN SubSeq(w, 1, Len(w) - 1) ELSE w]
CallListed == Listed(ret.value[2], RejectionHead(call.move, call.position))

\* The number of legal moves in a position.
NumLegal(position) == Len(LegalMoves(Board(position)))
Min(a, b) == IF a < b THEN a ELSE b

\* C27: validate_move on a well-formed move that is not legal in a position
\* with n legal moves returns a text that lists exactly the first
\* min(n, 10) moves of the oracle's list, in its order, and ends with
\* the marker "..." if and only if n > 10.
C27_RejectionListsFirstTenMoves ==
    (/\ pc = "returned"
     /\ call.fn = "validate_move"
     /\ from_uci(call.move).ok
     /\ ~InLegalMoves(from_uci(call.move), Board(call.position))) =>
        /\ ret.raised = "" /\ ret.value[1] = FALSE
        /\ StartsWith(ret.value[2], RejectionHead(call.move, call.position))
        /\ SelectSeq(CallListed, LAMBDA w : w # "...") =
              [i \in 1..Min(NumLegal(call.position), 10) |->
                  uci(LegalMoves(Board(call.position))[i])]
        /\ SubSeq(ret.value[2], Len(ret.value[2]) - 4, Len(ret.value[2])) = ", ..."
              <=> NumLegal(call.position) > 10
        /\ \A i \in 1..Len(CallListed) : CallListed[i] = "..." => i = Len(CallListed)

\* An illegal move was rejected in a position with exactly ten legal moves.
C27_Witness ==
    /\ pc = "returned"
    /\ call.fn = "validate_move"
    /\ call.move = "e2e5"
    /\ NumLegal(call.position) = 10
    /\ Len(CallListed) = 10

\* The message the ToolNode returns for a move-tool call: the tool returns
\* the move it was given.
MoveToolResult(c) == ToolMessage(c.args, c.name, c.id)

\* C28: within one invocation the history is append-only: after every
\* reasoning step and every dispatch cycle the previous history is a prefix
\* of the new one; of the messages a dispatch cycle appends, a move-tool
\* result differs from what the tool returned only when the move was
\* rejected, and then only in its content, which is the rejection text.
C28_HistoryIsAppendOnly ==
    [][/\ Len(messages') >= Len(messages)
       /\ SubSeq(messages', 1, Len(messages)) = messages
       /\ ReasoningStep => Len(messages') = Len(messages) + 1
       /\ DispatchCycle =>
             /\ Len(messages') = Len(messages) + Len(Batch)
             /\ \A k \in 1..Len(Batch) :
                   IsMoveCall(Batch[k]) =>
                      Answers[k] = IF IsRejected(Batch, k, current_position)
                                   THEN [MoveToolResult(Batch[k]) EXCEPT
                                            !.content = Verdict(Batch, k, current_position)[2]]
                                   ELSE MoveToolResult(Batch[k])]_vars

\* The second dispatch cycle of an invocation rewrote the result of a
\* rejected move, after the first had appended an accepted one.
C28_Witness ==
    /\ pc = "agent"
    /\ Len(messages) = 6
    /\ messages[4].content = "e2e4"
    /\ messages[5].type = "ai"
    /\ StartsWith(messages[6].content, "ERROR: Illegal move 'e2e5'")

\* A call carried by the other move tool, and what tools_node returns for
\* the batch of the state when every move-tool call is carried by the other
\* move tool.
SwapTool(c) ==
    [c EXCEPT !.name = IF @ = "tool_register_user_move" THEN "tool_make_move"
                       ELSE IF @ = "tool_make_move" THEN "tool_register_user_move" ELSE @]
Swapped ==
    tools_node([messages |-> <<AIMessage("", [i \in 1..Len(Batch) |-> SwapTool(Batch[i])])>>,
                current_position |-> current_position],
               [i \in 1..Len(Batch) |-> NoReply], TRUE)

\* C29: tools_node treats tool_register_user_move and tool_make_move alike:
\* for every batch and starting position, the position returned and the
\* content of every move-tool result (the move when accepted, the rejection
\* text when not) are the same when the moves are carried by the other
\* tool; and two consecutive calls of the same tool, e2e4 then e7e5 from
\* the start, are both accepted.
C29_MoveToolsAreInterchangeable ==
    (pc = "returned" /\ call.fn \in {"tools_node", "tools_node_batch"}) =>
        /\ ret.raised = "" /\ Swapped.raised = ""
        /\ ret.value.current_position = Swapped.value.current_position
        /\ \A k \in 1..Len(Batch) :
              IsMoveCall(Batch[k]) =>
                 /\ ret.value.messages[k].content = Swapped.value.messages[k].content
                 /\ ret.value.messages[k].name = Batch[k].name
                 /\ Swapped.value.messages[k].name # Batch[k].name
        /\ (/\ current_position = STARTING_FEN
            /\ Len(Batch) = 2
            /\ Batch[1].name = Batch[2].name
            /\ Batch[1].args = "e2e4" /\ Batch[2].args = "e7e5") =>
              /\ ret.value.current_position = AfterE2E4E7E5
              /\ ret.value.messages[1].content = "e2e4"
              /\ ret.value.messages[2].content = "e7e5"

\* Two calls of tool_register_user_move in one batch were both accepted.
C29_Witness ==
    /\ pc = "returned"
    /\ call.fn = "tools_node_batch"
    /\ Len(Batch) = 2
    /\ Batch[1].name = "tool_register_user_move" /\ Batch[2].name = "tool_register_user_move"
    /\ ret.value.messages[2].content = "e7e5"
    /\ ret.value.current_position = AfterE2E4E7E5

\* C30: a dispatch cycle that starts with current_position None validates
\* its move-tool calls from the standard starting position: with at least
\* one move-tool call in the batch it returns the starting position
\* advanced by the accepted moves, so the starting position itself when
\* every move is rejected; with no move-tool call it returns None.
C30_NoneBecomesStartingPosition ==
    (pc = "returned" /\ call.fn = "tools_node_batch" /\ current_position = None) =>
        /\ ret.raised = ""
        /\ (\E k \in 1..Len(Batch) : IsMoveCall(Batch[k])) =>
              /\ ret.value.current_position = WorkingPosition(Batch, Len(Batch), STARTING_FEN)
              /\ \A k \in 1..Len(Batch) :
                    IsMoveCall(Batch[k]) =>
                       ret.value.messages[k].content = Verdict(Batch, k, STARTING_FEN)[2]
              /\ (\A k \in 1..Len(Batch) :
                     IsMoveCall(Batch[k]) => IsRejected(Batch, k, STARTING_FEN)) =>
                    ret.value.current_position = STARTING_FEN
        /\ (\A k \in 1..Len(Batch) : ~IsMoveCall(Batch[k])) =>
              ret.value.current_position = None

\* A cycle started without a position and rejected both of its moves.
C30_Witness ==
    /\ pc = "returned"
    /\ call.fn = "tools_node_batch"
    /\ current_position = None
    /\ Len(Batch) = 2
    /\ IsRejected(Batch, 1, STARTING_FEN) /\ IsRejected(Batch, 2, STARTING_FEN)
    /\ ret.value.current_position = STARTING_FEN

\* A cycle started without a position and ran no move tool.
C30_WitnessNoMove ==
    /\ pc = "returned"
    /\ call.fn = "tools_node_batch"
    /\ current_position = None
    /\ \A k \in 1..Len(Batch) : ~IsMoveCall(Batch[k])
    /\ ret.value.current_position = None

\* C31: the request a tool_get_best_move call posts asks about the fen
\* argument of the call and is the same whatever current_position the state
\* holds; and current_position changes only once every tool call of the
\* batch has returned, so no request of a batch is posted after a move of
\* that batch was applied.
C31_RequestIndependentOfPosition ==
    /\ [][request' # request =>
            /\ Last(request'.posts).json.fen = Batch[Last(request'.posts).task].args
            /\ \A P \in GatherPositions \cup {None, current_position} :
                  tool_get_best_move_request([State EXCEPT !.current_position = P],
                                             Batch[Last(request'.posts).task])
                     = Return(Last(request'.posts).json)]_vars
    /\ [][current_position' # current_position =>
            /\ \A i \in 1..Len(call.tasks) : call.tasks[i] = "done"
            /\ request' = request]_vars

\* A batch of e7e5 and a request for the best move at the start has
\* returned from the position after e2e4: the request asked about the
\* start, and the move was applied after it was posted.
C31_Witness ==
    /\ pc = "agent"
    /\ Len(response.tool_calls) = 2
    /\ response.tool_calls[1].args = "e7e5"
    /\ response.tool_calls[2].name = "tool_get_best_move"
    /\ request.sent /\ request.posts[1].task = 2
    /\ request.posts[1].json.fen = STARTING_FEN
    /\ current_position = AfterE2E4E7E5

\* The position the loop of tools_node works from: the state's position,
\* or the starting position when the state has none and the batch holds a
\* move-tool call.
LoopStart ==
    IF current_position = None /\ \E k \in 1..Len(Batch) : IsMoveCall(Batch[k])
    THEN STARTING_FEN ELSE current_position

\* C32: update_fen returns a position, without raising, for every pair of
\* position and move that validate_move accepts (and raises for the pairs it
\* rejects); tools_node applies update_fen to the working position for the
\* accepted moves only, so a dispatch cycle never raises because of a move
\* and a rejected move leaves the working position as it was.
C32_UpdateFenAcceptsWhatValidateMoveAccepts ==
    pc = "returned" =>
        /\ call.fn = "validate_move" =>
              /\ ret.raised = ""
              /\ ret.value[1] <=> update_fen(call.position, call.move).raised = ""
        /\ call.fn \in {"tools_node", "tools_node_batch"} =>
              /\ ret.raised = ""
              /\ ret.value.current_position = WorkingPosition(Batch, Len(Batch), LoopStart)
              /\ \A k \in 1..Len(Batch) :
                    IsMoveCall(Batch[k]) =>
                       IF Verdict(Batch, k, LoopStart)[1]
                       THEN /\ update_fen(WorkingPosition(Batch, k - 1, LoopStart),
                                          Batch[k].args).raised = ""
                            /\ WorkingPosition(Batch, k, LoopStart) =
                                  update_fen(WorkingPosition(Batch, k - 1, LoopStart),
                                             Batch[k].args).value
                       ELSE WorkingPosition(Batch, k, LoopStart) =
                               WorkingPosition(Batch, k - 1, LoopStart)

\* A dispatch cycle applied a castling move written as the king's move
\* onto its rook.
C32_Witness ==
    /\ pc = "returned"
    /\ call.fn = "tools_node"
    /\ call.move = "e1h1"
    /\ ret.raised = ""
    /\ ret.value.messages[1].content = "e1h1"
    /\ ret.value.current_position = "r3k2r/pppppppp/8/8/8/8/PPPPPPPP/R4RK1 b kq - 1 1"

====
